---- MODULE Spec2Model ----
(***************************************************************************)
(* Model of the yield-analysis toolkit                                     *)
(* (contributing/samples/yield_analysis_agent/tools.py): the tool          *)
(* functions and the session state store (tool_context.state) they share.  *)
(*                                                                         *)
(* Python values are modelled as follows.                                  *)
(*   str    a sequence of one-character strings; the fixed text of an      *)
(*          f-string template is kept as one element of the sequence.      *)
(*   None   the one-element sequence <<"None">> ("None" is no character).  *)
(*   dict   a function from its keys; the session store is a function      *)
(*          whose domain is the set of topics created so far.              *)
(*   list   a sequence.                                                    *)
(* A tool function f is an operator f(args, ..., st, ...) giving the       *)
(* record [ret |-> returned value, state |-> store after the call, ...];   *)
(* the action Call_f applies it to the variables.                          *)
(***************************************************************************)
EXTENDS Integers, Sequences, FiniteSets, TLC

VARIABLES
    state,      \* tool_context.state: topic -> list of records
    clock,      \* the wall clock read by pd.Timestamp.now()
    uuids,      \* number of ids uuid.uuid4() has handed out
    call,       \* the call being answered: [op |-> name, ...arguments]
    result      \* what the call returned (or the exception it raised)

vars == <<state, clock, uuids, call, result>>

----------------------------------------------------------------------------
(* Python values *)

None == <<"None">>

\* a value that is neither a string nor None
NonStr == <<"<object>">>

IsStr(x) == x # None /\ x # NonStr

\* None where a list is expected
NoneList == <<[none |-> TRUE]>>

\* a value that is neither a list nor None, where a list is expected
NotAList == <<[object |-> TRUE]>>

\* isinstance(x, list)
IsList(x) == x # NoneList /\ x # NotAList

Str(s) == <<s>>

WhiteSpace == {" ", "\t", "\n"}

RECURSIVE LStrip(_)
LStrip(s) ==
    IF s = <<>> THEN <<>>
    ELSE IF Head(s) \in WhiteSpace THEN LStrip(Tail(s)) ELSE s

RECURSIVE RStrip(_)
RStrip(s) ==
    IF s = <<>> THEN <<>>
    ELSE IF s[Len(s)] \in WhiteSpace THEN RStrip(SubSeq(s, 1, Len(s) - 1)) ELSE s

\* str.strip()
Strip(s) == RStrip(LStrip(s))

UpperCase == <<"A", "B", "C", "D", "E", "F", "G", "H", "I", "J", "K", "L", "M",
               "N", "O", "P", "Q", "R", "S", "T", "U", "V", "W", "X", "Y", "Z">>

LowerCase == <<"a", "b", "c", "d", "e", "f", "g", "h", "i", "j", "k", "l", "m",
               "n", "o", "p", "q", "r", "s", "t", "u", "v", "w", "x", "y", "z">>

LowerChar(c) ==
    IF \E i \in DOMAIN UpperCase : UpperCase[i] = c
    THEN LowerCase[CHOOSE i \in DOMAIN UpperCase : UpperCase[i] = c]
    ELSE c

\* str.lower()
Lower(s) == [i \in DOMAIN s |-> LowerChar(s[i])]

\* a faulty variant of IsEmptyStr: white space counts as content
IsEmptyStr_NoStrip(x) == ~IsStr(x) \/ x = <<>>

\* "not isinstance(x, str) or not x.strip()"
IsEmptyStr(x) == ~IsStr(x) \/ Strip(x) = <<>>

\* Python truthiness of an optional string: None and "" are falsy
Truthy(s) == s # None /\ s # <<>>

Digits == <<"0", "1", "2", "3", "4", "5", "6", "7", "8", "9">>

\* str(n) for a natural number n
RECURSIVE IntStr(_)
IntStr(n) == IF n < 10 THEN <<Digits[n + 1]>> ELSE IntStr(n \div 10) \o <<Digits[(n % 10) + 1]>>

\* str(n) for an integer n
SignedStr(n) == IF n < 0 THEN <<"-">> \o IntStr(-n) ELSE IntStr(n)

\* n written with at least k digits
RECURSIVE ZeroPad(_, _)
ZeroPad(ds, k) == IF Len(ds) >= k THEN ds ELSE ZeroPad(<<"0">> \o ds, k)

\* [x for x in xs if P(x)] is SelectSeq(xs, P)

----------------------------------------------------------------------------
(* The session state store *)

EmptyState == [t \in {} |-> <<>>]

\* tool_context.state[t], the empty list when the topic was never created
Topic(st, t) == IF t \in DOMAIN st THEN st[t] ELSE <<>>

\* a faulty variant of Log: the record is put in front of the list
Log_Prepend(st, t, rec) ==
    [k \in DOMAIN st \cup {t} |-> IF k = t THEN <<rec>> \o Topic(st, t) ELSE st[k]]

\* a faulty variant of Log: the record is appended twice
Log_Twice(st, t, rec) ==
    [k \in DOMAIN st \cup {t} |-> IF k = t THEN Topic(st, t) \o <<rec, rec>> ELSE st[k]]

\* if t not in state: state[t] = []; state[t].append(rec)
Log(st, t, rec) ==
    [k \in DOMAIN st \cup {t} |-> IF k = t THEN Topic(st, t) \o <<rec>> ELSE st[k]]

RECURSIVE SumLen(_, _)
SumLen(st, ts) ==
    IF ts = {} THEN 0
    ELSE LET t == CHOOSE x \in ts : TRUE IN Len(st[t]) + SumLen(st, ts \ {t})

\* number of records held by the store, over all topics
TotalRecords(st) == SumLen(st, DOMAIN st)

Error(msg) == [error |-> msg]

IsError(r) == "error" \in DOMAIN r

Raised(exc) == [raised |-> exc]

IsRaised(r) == "raised" \in DOMAIN r

----------------------------------------------------------------------------
(* Numbers.  A Python float is modelled as the exact rational it stands    *)
(* for, [num |-> n, den |-> d] in lowest terms with d > 0; rounding of the *)
(* binary representation is not modelled.  A value whose Python type is    *)
(* tested by the code is tagged: [int |-> n], [float |-> q], [str |-> s].  *)

Abs(n) == IF n < 0 THEN -n ELSE n

RECURSIVE GCD(_, _)
GCD(a, b) == IF b = 0 THEN a ELSE GCD(b, a % b)

\* a faulty variant of Rat: the division drops the fraction
Rat_Floor(n, d) == [num |-> n \div d, den |-> 1]

\* the rational n / d in lowest terms
Rat(n, d) ==
    LET g == GCD(Abs(n), Abs(d))
        sgn == IF d < 0 THEN -1 ELSE 1
    IN  [num |-> sgn * (n \div g), den |-> Abs(d) \div g]

RInt(n) == [num |-> n, den |-> 1]
RAdd(a, b) == Rat(a.num * b.den + b.num * a.den, a.den * b.den)
RSub(a, b) == Rat(a.num * b.den - b.num * a.den, a.den * b.den)
RMul(a, b) == Rat(a.num * b.num, a.den * b.den)
RDiv(a, b) == Rat(a.num * b.den, a.den * b.num)
\* a faulty variant of RLess: equal values count as less
RLess_OrEqual(a, b) == a.num * b.den <= b.num * a.den

RLess(a, b) == a.num * b.den < b.num * a.den
RLeq(a, b) == a.num * b.den <= b.num * a.den

PyNone == [none |-> TRUE]
PyInt(n) == [int |-> n]
PyFloat(q) == [float |-> q]
PyStr(s) == [str |-> s]

\* isinstance(v, int)
IsInt(v) == "int" \in DOMAIN v

\* isinstance(v, (int, float))
IsNumber(v) == "int" \in DOMAIN v \/ "float" \in DOMAIN v

\* the value of a number
Val(v) == IF IsInt(v) THEN RInt(v.int) ELSE v.float

----------------------------------------------------------------------------
(* Yield metrics *)

\* a faulty variant of calculate_yield_metrics: a lot in which every unit is
\* defective is rejected
calculate_yield_metrics_Strict(total_units, defective_units, tool_context, st) ==
    IF total_units <= 0
    THEN [ret |-> Error("Total units must be a positive number."), state |-> st]
    ELSE IF defective_units < 0
    THEN [ret |-> Error("Defective units cannot be negative."), state |-> st]
    ELSE IF defective_units >= total_units
    THEN [ret |-> Error("Defective units cannot exceed total units."), state |-> st]
    ELSE
        LET yield_rate == Rat(total_units - defective_units, total_units)
            defect_rate == Rat(defective_units, total_units)
        IN  [ret |-> [yield_rate |-> yield_rate, defect_rate |-> defect_rate],
             state |-> IF tool_context
                       THEN Log(st, "calculations",
                                [total_units |-> total_units,
                                 defective_units |-> defective_units,
                                 yield_rate |-> yield_rate,
                                 defect_rate |-> defect_rate])
                       ELSE st]

\* a faulty variant of calculate_yield_metrics: the call is logged before
\* the defective units are compared with the total
calculate_yield_metrics_LogsFirst(total_units, defective_units, tool_context, st) ==
    IF total_units <= 0
    THEN [ret |-> Error("Total units must be a positive number."), state |-> st]
    ELSE IF defective_units < 0
    THEN [ret |-> Error("Defective units cannot be negative."), state |-> st]
    ELSE
        LET yield_rate == Rat(total_units - defective_units, total_units)
            defect_rate == Rat(defective_units, total_units)
            st1 == IF tool_context
                   THEN Log(st, "calculations",
                            [total_units |-> total_units,
                             defective_units |-> defective_units,
                             yield_rate |-> yield_rate,
                             defect_rate |-> defect_rate])
                   ELSE st
        IN  IF defective_units > total_units
            THEN [ret |-> Error("Defective units cannot exceed total units."), state |-> st1]
            ELSE [ret |-> [yield_rate |-> yield_rate, defect_rate |-> defect_rate],
                  state |-> st1]

calculate_yield_metrics(total_units, defective_units, tool_context, st) ==
    IF total_units <= 0
    THEN [ret |-> Error("Total units must be a positive number."), state |-> st]
    ELSE IF defective_units < 0
    THEN [ret |-> Error("Defective units cannot be negative."), state |-> st]
    ELSE IF defective_units > total_units
    THEN [ret |-> Error("Defective units cannot exceed total units."), state |-> st]
    ELSE
        LET yield_rate == Rat(total_units - defective_units, total_units)
            defect_rate == Rat(defective_units, total_units)
        IN  [ret |-> [yield_rate |-> yield_rate, defect_rate |-> defect_rate],
             state |-> IF tool_context
                       THEN Log(st, "calculations",
                                [total_units |-> total_units,
                                 defective_units |-> defective_units,
                                 yield_rate |-> yield_rate,
                                 defect_rate |-> defect_rate])
                       ELSE st]

StageKeys == {"stage_name", "input_units", "output_units"}

\* the error of the first check a stage record fails, NoError if it passes
NoError == [ok |-> TRUE]

StageError(stage_data) ==
    IF ~(StageKeys \subseteq DOMAIN stage_data)
    THEN Error("Each stage must have 'stage_name', 'input_units', and 'output_units'.")
    ELSE IF ~IsInt(stage_data.input_units) \/ ~IsInt(stage_data.output_units)
    THEN Error("Input and output units must be integers.")
    ELSE IF stage_data.input_units.int <= 0
    THEN [error |-> "Input units for stage must be positive.",
          stage |-> stage_data.stage_name]
    ELSE IF stage_data.output_units.int < 0
    THEN [error |-> "Output units for stage cannot be negative.",
          stage |-> stage_data.stage_name]
    ELSE IF stage_data.output_units.int > stage_data.input_units.int
    THEN [error |-> "Output units cannot exceed input units for stage.",
          stage |-> stage_data.stage_name]
    ELSE NoError

StageYield(stage_data) == Rat(stage_data.output_units.int, stage_data.input_units.int)

LowYieldEntry(stage_data) ==
    [stage_name |-> stage_data.stage_name,
     yield |-> StageYield(stage_data),
     input_units |-> stage_data.input_units.int,
     output_units |-> stage_data.output_units.int]

\* the loop over the stages: the first rejected stage ends it with its error
RECURSIVE ScanStages(_, _, _)
ScanStages(stages, yield_threshold, low_yield_stages) ==
    IF stages = <<>> THEN [low_yield_stages |-> low_yield_stages]
    ELSE LET stage_data == Head(stages)
         IN  IF StageError(stage_data) # NoError THEN StageError(stage_data)
             ELSE ScanStages(Tail(stages), yield_threshold,
                    IF RLess(StageYield(stage_data), yield_threshold)
                    THEN Append(low_yield_stages, LowYieldEntry(stage_data))
                    ELSE low_yield_stages)

identify_low_yield_stages(production_data_per_stage, yield_threshold, tool_context, st) ==
    IF ~IsList(production_data_per_stage)
    THEN [ret |-> Error("Production data per stage must be a list of dictionaries."),
          state |-> st]
    ELSE IF ~(RLess(RInt(0), yield_threshold) /\ RLeq(yield_threshold, RInt(1)))
    THEN [ret |-> Error("Yield threshold must be between 0 (exclusive) and 1 (inclusive)."),
          state |-> st]
    ELSE
        LET scan == ScanStages(production_data_per_stage, yield_threshold, <<>>)
        IN  IF IsError(scan) THEN [ret |-> scan, state |-> st]
            ELSE [ret |-> scan,
                  state |-> IF tool_context
                            THEN Log(st, "low_yield_analysis",
                                     [yield_threshold |-> yield_threshold,
                                      identified_low_yield_stages |-> scan.low_yield_stages])
                            ELSE st]

----------------------------------------------------------------------------
(* Suggestions *)

\* round(q) to the nearest integer, ties to even, for q >= 0
RoundHalfEven(q) ==
    LET fl == q.num \div q.den
        twice == 2 * (q.num % q.den)
    IN  IF twice < q.den THEN fl
        ELSE IF twice > q.den THEN fl + 1
        ELSE IF fl % 2 = 0 THEN fl ELSE fl + 1

\* f"{q:.2%}" for q >= 0
PercentStr(q) ==
    LET n == RoundHalfEven(RMul(q, RInt(10000)))
    IN  IntStr(n \div 100) \o <<".">> \o ZeroPad(IntStr(n % 100), 2) \o <<"%">>

RECURSIVE StripZeros(_)
StripZeros(ds) ==
    IF Len(ds) > 1 /\ ds[Len(ds)] = "0" THEN StripZeros(SubSeq(ds, 1, Len(ds) - 1)) ELSE ds

\* str(x) of a float x with at most four decimals (more are cut off)
FloatStr(q) ==
    LET a == Abs(q.num)
        frac == ((a % q.den) * 10000) \div q.den
    IN  (IF q.num < 0 THEN <<"-">> ELSE <<>>)
            \o IntStr(a \div q.den) \o <<".">> \o StripZeros(ZeroPad(IntStr(frac), 4))

\* str(v) of a tagged value
PyValueStr(v) ==
    IF "int" \in DOMAIN v THEN SignedStr(v.int)
    ELSE IF "float" \in DOMAIN v THEN FloatStr(v.float)
    ELSE v.str

StageSuggestion(stage) ==
    Str("Investigate root causes and implement corrective actions for low yield at stage: ")
        \o stage.stage_name
        \o (IF "yield" \in DOMAIN stage
            THEN Str(" (Yield: ") \o PercentStr(stage.yield) \o Str(")") ELSE <<>>)
        \o Str(".")

DefectSuggestion(defect) ==
    Str("Address common defect type: Implement specific countermeasures for '")
        \o defect.str \o Str("'.")

PointSuggestion(point) ==
    Str("- Index ")
        \o (IF "index" \in DOMAIN point THEN SignedStr(point.index) ELSE Str("N/A"))
        \o Str(", Value ")
        \o (IF "value" \in DOMAIN point THEN FloatStr(point.value) ELSE Str("N/A"))
        \o (IF "metric_name" \in DOMAIN point
            THEN Str(" for metric '") \o point.metric_name \o Str("'") ELSE <<>>)

OocSuggestions(points) ==
    IF points = <<>> THEN <<>>
    ELSE <<Str("Address SPC out-of-control signals: Investigate the causes for the following out-of-control points:")>>
            \o [i \in DOMAIN points |-> PointSuggestion(points[i])]
            \o <<Str("Implement corrective actions to bring the process back into statistical control.")>>

RcaSuggestions(rca_summary) ==
    IF Truthy(rca_summary) /\ Strip(rca_summary) # <<>>
    THEN <<Str("Based on Root Cause Analysis: Address the findings summarized as: '")
            \o rca_summary \o Str("'. Develop and implement targeted solutions.")>>
    ELSE <<>>

GenericSuggestion ==
    Str("No specific issues (low yield, defects, OOC points, or RCA summary) provided. Consider a general process review or provide more data for targeted suggestions.")

suggest_improvement_actions(low_yield_stages0, common_defect_types0, spc_out_of_control_points0, rca_summary, tool_context, st) ==
    LET low_yield_stages ==
            IF low_yield_stages0 = NoneList THEN <<>> ELSE low_yield_stages0
        common_defect_types ==
            IF common_defect_types0 = NoneList THEN <<>> ELSE common_defect_types0
        spc_out_of_control_points ==
            IF spc_out_of_control_points0 = NoneList THEN <<>>
            ELSE spc_out_of_control_points0
    IN  IF ~IsList(low_yield_stages)
        THEN [ret |-> Error("Low yield stages must be a list if provided."), state |-> st]
        ELSE IF ~IsList(common_defect_types)
        THEN [ret |-> Error("Common defect types must be a list if provided."), state |-> st]
        ELSE IF ~IsList(spc_out_of_control_points)
        THEN [ret |-> Error("SPC out-of-control points must be a list if provided."),
              state |-> st]
        ELSE IF rca_summary # None /\ ~IsStr(rca_summary)
        THEN [ret |-> Error("RCA summary must be a string if provided."), state |-> st]
        ELSE IF \E i \in DOMAIN low_yield_stages :
                    "stage_name" \notin DOMAIN low_yield_stages[i]
        THEN [ret |-> Error("Each low yield stage must be a dictionary with at least a 'stage_name'."),
              state |-> st]
        ELSE IF \E i \in DOMAIN common_defect_types :
                    "str" \notin DOMAIN common_defect_types[i]
        THEN [ret |-> Error("Each defect type must be a string."), state |-> st]
        ELSE
            LET found ==
                    [i \in DOMAIN low_yield_stages |-> StageSuggestion(low_yield_stages[i])]
                    \o [i \in DOMAIN common_defect_types |->
                            DefectSuggestion(common_defect_types[i])]
                    \o OocSuggestions(spc_out_of_control_points)
                    \o RcaSuggestions(rca_summary)
                suggestions == IF found = <<>> THEN <<GenericSuggestion>> ELSE found
            IN  [ret |-> [suggested_actions |-> suggestions],
                 state |-> IF tool_context
                           THEN Log(st, "improvement_suggestions",
                                    [low_yield_stages_input |-> low_yield_stages,
                                     common_defect_types_input |-> common_defect_types,
                                     spc_ooc_points_input |-> spc_out_of_control_points,
                                     rca_summary_input |-> rca_summary,
                                     suggestions_provided |-> suggestions])
                           ELSE st]

----------------------------------------------------------------------------
(* Statistical process control.  A standard deviation is the square root   *)
(* of a rational: the value base + coef * sqrt(rad) is kept as the record  *)
(* [base, coef, rad], and as [base, 0, 0] when it is rational.             *)

RECURSIVE SumSeq(_)
SumSeq(qs) == IF qs = <<>> THEN RInt(0) ELSE RAdd(Head(qs), SumSeq(Tail(qs)))

Values(data_points) == [i \in DOMAIN data_points |-> Val(data_points[i])]

\* a faulty variant: the sum is not divided by the number of values
Mean_Sum(qs) == SumSeq(qs)

\* np.mean
Mean(qs) == RDiv(SumSeq(qs), RInt(Len(qs)))

\* the sum of the squared deviations from the mean
SumSq(qs) ==
    LET m == Mean(qs)
    IN  SumSeq([i \in DOMAIN qs |-> RMul(RSub(qs[i], m), RSub(qs[i], m))])

\* np.std squared (population variance)
Variance(qs) == RDiv(SumSq(qs), RInt(Len(qs)))

\* pandas' rolling std squared (sample variance, ddof = 1)
SampleVariance(qs) == RDiv(SumSq(qs), RInt(Len(qs) - 1))

IsSquare(n) == \E k \in 0..n : k * k = n

ISqrt(n) == CHOOSE k \in 0..n : k * k = n

Surd(base, coef, rad) ==
    IF coef.num = 0 \/ rad.num = 0
    THEN [base |-> base, coef |-> RInt(0), rad |-> RInt(0)]
    ELSE IF IsSquare(rad.num) /\ IsSquare(rad.den)
    THEN [base |-> RAdd(base, RMul(coef, Rat(ISqrt(rad.num), ISqrt(rad.den)))),
          coef |-> RInt(0), rad |-> RInt(0)]
    ELSE [base |-> base, coef |-> coef, rad |-> rad]

\* a faulty variant: no value is found negative, so the lower limit is never
\* clamped
SurdNegative_Never(x) == FALSE

\* base + coef * sqrt(rad) < 0
SurdNegative(x) ==
    LET a2 == RMul(x.base, x.base)
        b2r == RMul(RMul(x.coef, x.coef), x.rad)
    IN  IF x.coef.num = 0 \/ x.rad.num = 0 THEN x.base.num < 0
        ELSE IF x.coef.num > 0
        THEN x.base.num < 0 /\ RLess(b2r, a2)
        ELSE x.base.num < 0 \/ RLess(a2, b2r)

calculate_spc_metrics_and_limits(data_points, control_limit_sigma, tool_context, st) ==
    IF ~IsList(data_points) \/ Len(data_points) < 2
    THEN [ret |-> Error("Insufficient data points. At least 2 data points are required."),
          state |-> st]
    ELSE IF \E i \in DOMAIN data_points : ~IsNumber(data_points[i])
    THEN [ret |-> Error("All data points must be numerical (int or float)."), state |-> st]
    ELSE IF control_limit_sigma.num <= 0
    THEN [ret |-> Error("Control limit sigma must be a positive value."), state |-> st]
    ELSE
        LET np_data == Values(data_points)
            mean == Mean(np_data)
            variance == Variance(np_data)
            std_dev == Surd(RInt(0), RInt(1), variance)
            is_non_negative_data == \A i \in DOMAIN np_data : np_data[i].num >= 0
            ucl == Surd(mean, control_limit_sigma, variance)
            lcl0 == Surd(mean, RSub(RInt(0), control_limit_sigma), variance)
            lcl == IF is_non_negative_data /\ SurdNegative(lcl0)
                   THEN Surd(RInt(0), RInt(0), RInt(0)) ELSE lcl0
            results == [mean |-> mean,
                        std_dev |-> std_dev,
                        upper_control_limit |-> ucl,
                        lower_control_limit |-> lcl,
                        control_limit_sigma |-> control_limit_sigma,
                        data_points_analyzed |-> Len(data_points)]
        IN  [ret |-> results,
             state |-> IF tool_context THEN Log(st, "spc_analysis", results) ELSE st]

\* a faulty variant of OocPoints: the lower limit is not looked at
OocPoints_UpperOnly(values, i, upper, lower) ==
    LET over == {j \in i..Len(values) : RLess(upper, values[j])}
    IN  [n \in 1..Cardinality(over) |->
            LET j == CHOOSE h \in over : Cardinality({g \in over : g <= h}) = n
            IN  [index |-> j - 1, value |-> values[j]]]

\* the points outside the limits, with their 0-based index
RECURSIVE OocPoints(_, _, _, _)
OocPoints(values, i, upper, lower) ==
    IF i > Len(values) THEN <<>>
    ELSE (IF RLess(upper, values[i]) \/ RLess(values[i], lower)
          THEN <<[index |-> i - 1, value |-> values[i]]>> ELSE <<>>)
            \o OocPoints(values, i + 1, upper, lower)

identify_out_of_control_points(data_points, upper_control_limit, lower_control_limit, tool_context, st) ==
    IF ~IsList(data_points) \/ data_points = <<>>
    THEN [ret |-> Error("Data points list cannot be empty."), state |-> st]
    ELSE IF \E i \in DOMAIN data_points : ~IsNumber(data_points[i])
    THEN [ret |-> Error("All data points must be numerical (int or float)."), state |-> st]
    ELSE IF ~IsNumber(upper_control_limit) \/ ~IsNumber(lower_control_limit)
    THEN [ret |-> Error("Upper and Lower control limits must be numerical."), state |-> st]
    ELSE IF RLess(Val(upper_control_limit), Val(lower_control_limit))
    THEN [ret |-> Error("Lower control limit cannot be greater than Upper control limit."),
          state |-> st]
    ELSE
        LET ooc_points == OocPoints(Values(data_points), 1, Val(upper_control_limit),
                                    Val(lower_control_limit))
            results == [out_of_control_points |-> ooc_points,
                        ucl_used |-> upper_control_limit,
                        lcl_used |-> lower_control_limit,
                        data_points_checked |-> Len(data_points)]
        IN  [ret |-> results,
             state |-> IF tool_context THEN Log(st, "spc_ooc_checks", results) ELSE st]

----------------------------------------------------------------------------
(* Anomaly detection *)

\* pandas' rolling(window, center=True): the window of position i (1-based)
\* ends (window - 1) \div 2 positions after it; there is no value where the
\* window does not fit in the series
\* a faulty variant: the window is not centered, it ends at the position
WindowLast_Trailing(i, window_size) == i

WindowLast(i, window_size) == i + ((window_size - 1) \div 2)

WindowFirst(i, window_size) == WindowLast(i, window_size) - window_size + 1

HasWindow(n, i, window_size) ==
    WindowFirst(i, window_size) >= 1 /\ WindowLast(i, window_size) <= n

Window(values, i, window_size) ==
    SubSeq(values, WindowFirst(i, window_size), WindowLast(i, window_size))

\* the reasons for which a point is an anomaly; the figures that the
\* messages of the code quote in brackets are left out
PointReasons(values, i, window_size, std_dev_threshold, absolute_upper_threshold, absolute_lower_threshold) ==
    LET point_value == values[i]
        absUpper ==
            IF absolute_upper_threshold # PyNone
                /\ RLess(Val(absolute_upper_threshold), point_value)
            THEN <<"Exceeded absolute upper threshold">> ELSE <<>>
        absLower ==
            IF absolute_lower_threshold # PyNone
                /\ RLess(point_value, Val(absolute_lower_threshold))
            THEN <<"Below absolute lower threshold">> ELSE <<>>
        rolling ==
            IF HasWindow(Len(values), i, window_size)
            THEN LET w == Window(values, i, window_size)
                     dev == RSub(point_value, Mean(w))
                     dev2 == RMul(dev, dev)
                     reach2 == RMul(RMul(std_dev_threshold, std_dev_threshold),
                                    SampleVariance(w))
                 IN  IF dev.num > 0 /\ RLess(reach2, dev2)
                     THEN <<"Exceeded rolling upper bound">>
                     ELSE IF dev.num < 0 /\ RLess(reach2, dev2)
                     THEN <<"Below rolling lower bound">>
                     ELSE <<>>
            ELSE <<>>
    IN  absUpper \o absLower \o rolling

\* "; ".join(reason)
RECURSIVE JoinReasons(_)
JoinReasons(reason) ==
    IF Len(reason) <= 1 THEN reason
    ELSE <<reason[1], "; ">> \o JoinReasons(Tail(reason))

RECURSIVE Anomalies(_, _, _, _, _, _)
Anomalies(values, i, window_size, std_dev_threshold, absolute_upper_threshold, absolute_lower_threshold) ==
    IF i > Len(values) THEN <<>>
    ELSE LET reason == PointReasons(values, i, window_size, std_dev_threshold,
                                    absolute_upper_threshold, absolute_lower_threshold)
         IN  (IF reason # <<>>
              THEN <<[index |-> i - 1, value |-> values[i], reason |-> JoinReasons(reason)]>>
              ELSE <<>>)
                \o Anomalies(values, i + 1, window_size, std_dev_threshold,
                             absolute_upper_threshold, absolute_lower_threshold)

detect_simple_anomalies(data_points, window_size, std_dev_threshold, absolute_upper_threshold, absolute_lower_threshold, tool_context, st) ==
    IF ~IsList(data_points) \/ Len(data_points) < window_size
    THEN [ret |-> Error("Insufficient data points."), state |-> st]
    ELSE IF \E i \in DOMAIN data_points : ~IsNumber(data_points[i])
    THEN [ret |-> Error("All data points must be numerical (int or float)."), state |-> st]
    ELSE IF window_size < 2
    THEN [ret |-> Error("Window size must be an integer of at least 2."), state |-> st]
    ELSE IF std_dev_threshold.num <= 0
    THEN [ret |-> Error("Standard deviation threshold must be a positive number."),
          state |-> st]
    ELSE IF absolute_upper_threshold # PyNone /\ ~IsNumber(absolute_upper_threshold)
    THEN [ret |-> Error("Absolute upper threshold must be a number if provided."),
          state |-> st]
    ELSE IF absolute_lower_threshold # PyNone /\ ~IsNumber(absolute_lower_threshold)
    THEN [ret |-> Error("Absolute lower threshold must be a number if provided."),
          state |-> st]
    ELSE IF /\ absolute_upper_threshold # PyNone
            /\ absolute_lower_threshold # PyNone
            /\ RLeq(Val(absolute_upper_threshold), Val(absolute_lower_threshold))
    THEN [ret |-> Error("Absolute lower threshold cannot be greater than or equal to absolute upper threshold."),
          state |-> st]
    ELSE
        LET anomalies == Anomalies(Values(data_points), 1, window_size, std_dev_threshold,
                                   absolute_upper_threshold, absolute_lower_threshold)
            parameters_used == [window_size |-> window_size,
                                std_dev_threshold |-> std_dev_threshold,
                                absolute_upper_threshold |-> absolute_upper_threshold,
                                absolute_lower_threshold |-> absolute_lower_threshold,
                                data_points_analyzed |-> Len(data_points)]
        IN  [ret |-> [anomalies |-> anomalies, parameters_used |-> parameters_used],
             state |-> IF tool_context
                       THEN Log(st, "anomaly_detection_runs",
                                [parameters |-> parameters_used,
                                 anomalies_found_count |-> Len(anomalies)])
                       ELSE st]

----------------------------------------------------------------------------
(* Knowledge base *)

\* what open() and json.load() find at the path of the knowledge base
KbMissing == [file |-> "missing"]
KbMalformed == [file |-> "malformed"]
KbFile(entries) == [file |-> "json", entries |-> entries]

\* needle in hay, for strings
\* a faulty variant: the keyword is only looked for at the start of the text
IsSubstring_Prefix(needle, hay) ==
    Len(needle) <= Len(hay) /\ SubSeq(hay, 1, Len(needle)) = needle

IsSubstring(needle, hay) ==
    \E i \in 0..(Len(hay) - Len(needle)) : SubSeq(hay, i + 1, i + Len(needle)) = needle

\* " ".join(words)
RECURSIVE JoinWords(_)
JoinWords(words) ==
    IF words = <<>> THEN <<>>
    ELSE IF Len(words) = 1 THEN words[1]
    ELSE words[1] \o <<" ">> \o JoinWords(Tail(words))

\* the text of an entry that is searched: its keywords and its problem summary
EntryTextCorpus(entry) ==
    Lower(JoinWords(IF "keywords" \in DOMAIN entry THEN entry.keywords ELSE <<>>))
        \o <<" ">>
        \o Lower(IF "problem_summary" \in DOMAIN entry THEN entry.problem_summary ELSE <<>>)

EntryMatches(entry, search_keywords) ==
    \E k \in DOMAIN search_keywords :
        IsSubstring(Lower(search_keywords[k].str), EntryTextCorpus(entry))

query_knowledge_base(search_keywords, tool_context, st, kb) ==
    IF ~IsList(search_keywords) \/ search_keywords = <<>>
    THEN [ret |-> Error("Search keywords list cannot be empty."), state |-> st]
    ELSE IF \E k \in DOMAIN search_keywords : "str" \notin DOMAIN search_keywords[k]
    THEN [ret |-> Error("All search keywords must be strings."), state |-> st]
    ELSE IF kb = KbMissing
    THEN [ret |-> Error("Knowledge base file not found."), state |-> st]
    ELSE IF kb = KbMalformed
    THEN [ret |-> Error("Error decoding JSON from knowledge base file."), state |-> st]
    ELSE
        LET Matching(entry) == EntryMatches(entry, search_keywords)
            matching_entries == SelectSeq(kb.entries, Matching)
            st1 == IF tool_context
                   THEN Log(st, "kb_queries",
                            [keywords_used |-> search_keywords,
                             matches_found |-> Len(matching_entries)])
                   ELSE st
        IN  IF matching_entries = <<>>
            THEN [ret |-> [message |-> "No matching entries found in the knowledge base for the given keywords.",
                           results |-> <<>>],
                  state |-> st1]
            ELSE [ret |-> [results |-> matching_entries], state |-> st1]

----------------------------------------------------------------------------
(* Failure patterns.  A timestamp is a number of minutes; an event whose   *)
(* timestamp pd.to_datetime() cannot parse carries [str |-> text] instead  *)
(* of [int |-> minutes].  An item id is a tagged string or integer.        *)

EventKeys == {"timestamp", "event_type", "item_id"}

\* the first loop: the error of the first event without the required keys
\* or with a timestamp that cannot be parsed
RECURSIVE FirstEventError(_, _)
FirstEventError(event_data, i) ==
    IF i > Len(event_data) THEN NoError
    ELSE IF ~(EventKeys \subseteq DOMAIN event_data[i])
    THEN [error |-> "Event is missing one or more required keys.", index |-> i - 1]
    ELSE IF ~IsInt(event_data[i].timestamp)
    THEN [error |-> "Invalid timestamp format for event.", index |-> i - 1]
    ELSE FirstEventError(event_data, i + 1)

\* the position of a character in the order of the strings
CharRank(c) ==
    IF \E i \in DOMAIN UpperCase : UpperCase[i] = c
    THEN CHOOSE i \in DOMAIN UpperCase : UpperCase[i] = c
    ELSE IF \E i \in DOMAIN LowerCase : LowerCase[i] = c
    THEN 26 + (CHOOSE i \in DOMAIN LowerCase : LowerCase[i] = c)
    ELSE 0

\* a < b for strings
RECURSIVE StrLess(_, _)
StrLess(a, b) ==
    IF b = <<>> THEN FALSE
    ELSE IF a = <<>> THEN TRUE
    ELSE IF CharRank(Head(a)) # CharRank(Head(b)) THEN CharRank(Head(a)) < CharRank(Head(b))
    ELSE StrLess(Tail(a), Tail(b))

\* item ids of different types cannot be ordered
Comparable(x, y) == IsInt(x) = IsInt(y)

IdLess(x, y) == IF IsInt(x) THEN x.int < y.int ELSE StrLess(x.str, y.str)

\* (item_id, timestamp) of e before that of f
EventLess(e, f) ==
    IF e.item_id # f.item_id THEN IdLess(e.item_id, f.item_id)
    ELSE e.timestamp.int < f.timestamp.int

\* list.sort(): stable, by insertion
RECURSIVE InsertEvent(_, _)
InsertEvent(sorted, e) ==
    IF sorted = <<>> THEN <<e>>
    ELSE IF EventLess(e, sorted[Len(sorted)])
    THEN InsertEvent(SubSeq(sorted, 1, Len(sorted) - 1), e) \o <<sorted[Len(sorted)]>>
    ELSE Append(sorted, e)

\* a faulty variant: the events are scanned in the order of the input
SortEvents_Unsorted(events) == events

RECURSIVE SortEvents(_)
SortEvents(events) ==
    IF events = <<>> THEN <<>>
    ELSE InsertEvent(SortEvents(SubSeq(events, 1, Len(events) - 1)), events[Len(events)])

\* f"{item_id}::{event_type}"
PatternKey(item_id, event_type) == PyValueStr(item_id) \o <<":", ":">> \o event_type

\* a faulty variant of Round2: no rounding
Round2_Exact(q) == q

\* round(x, 2) for x >= 0
Round2(q) == Rat(RoundHalfEven(RMul(q, RInt(100))), 100)

\* d[k] += 1 on a defaultdict(int)
Increment(counts, k) ==
    [x \in DOMAIN counts \cup {k} |->
        IF x = k THEN (IF k \in DOMAIN counts THEN counts[k] ELSE 0) + 1 ELSE counts[x]]

\* d[k].append(v) on a defaultdict(list)
AppendTo(lists, k, v) ==
    [x \in DOMAIN lists \cup {k} |->
        IF x = k THEN (IF k \in DOMAIN lists THEN lists[k] ELSE <<>>) \o <<v>>
        ELSE lists[x]]

\* a faulty variant of Without: the entry stays
Without_Kept(d, k) == d

\* del d[k]
Without(d, k) == [x \in DOMAIN d \ {k} |-> d[x]]

EmptyDict == [x \in {} |-> 0]

\* the scan of the sorted events; last_maintenance_time maps an item id to
\* the time of its last maintenance not yet followed by an event of another
\* type
RECURSIVE ScanEvents(_, _, _, _, _)
ScanEvents(events, maintenance_completed_event_type, counts, ttf, last_maintenance_time) ==
    IF events = <<>> THEN [failure_type_counts |-> counts, time_to_failure |-> ttf]
    ELSE
        LET event == Head(events)
            item == event.item_id
            key == PatternKey(event.item_id, event.event_type)
        IN  IF event.event_type = maintenance_completed_event_type
            THEN ScanEvents(Tail(events), maintenance_completed_event_type, counts, ttf,
                            [x \in DOMAIN last_maintenance_time \cup {item} |->
                                IF x = item THEN event.timestamp.int
                                ELSE last_maintenance_time[x]])
            ELSE IF item \in DOMAIN last_maintenance_time
            THEN ScanEvents(Tail(events), maintenance_completed_event_type,
                            Increment(counts, key),
                            AppendTo(ttf, key,
                                Round2(Rat(event.timestamp.int - last_maintenance_time[item],
                                           60))),
                            Without(last_maintenance_time, item))
            ELSE ScanEvents(Tail(events), maintenance_completed_event_type,
                            Increment(counts, key), ttf, last_maintenance_time)

\* time_to_failure_after_maintenance_summary
TtfSummary(ttf) ==
    [k \in DOMAIN ttf |->
        [average_hours |-> Round2(Mean(ttf[k])), count |-> Len(ttf[k]), all_hours |-> ttf[k]]]

identify_simple_failure_patterns(event_data, maintenance_completed_event_type, tool_context, st) ==
    IF ~IsList(event_data) \/ event_data = <<>>
    THEN [ret |-> Error("Event data list cannot be empty."), state |-> st]
    ELSE IF FirstEventError(event_data, 1) # NoError
    THEN [ret |-> FirstEventError(event_data, 1), state |-> st]
    ELSE IF \E i, j \in DOMAIN event_data :
                ~Comparable(event_data[i].item_id, event_data[j].item_id)
    THEN [ret |-> Error("Could not sort event data. Ensure item_ids are consistent."),
          state |-> st]
    ELSE
        LET sorted == SortEvents(event_data)
            scan == ScanEvents(sorted, maintenance_completed_event_type,
                               EmptyDict, EmptyDict, EmptyDict)
            summary == TtfSummary(scan.time_to_failure)
            notes ==
                IF DOMAIN scan.failure_type_counts = {} /\ DOMAIN summary = {}
                THEN <<Str("No significant failure patterns identified with the provided data and logic."),
                       Str("Ensure '") \o maintenance_completed_event_type
                            \o Str("' event type is correctly specified and present for TtF calculations.")>>
                ELSE <<>>
            patterns == [failure_type_counts |-> scan.failure_type_counts,
                         time_to_failure_after_maintenance_summary |-> summary,
                         notes |-> notes]
        IN  [ret |-> [identified_patterns |-> patterns],
             state |-> IF tool_context
                       THEN Log(st, "failure_pattern_runs",
                                [maintenance_event_type_used |-> maintenance_completed_event_type,
                                 events_analyzed_count |-> Len(event_data),
                                 failure_types_found |->
                                    Cardinality(DOMAIN scan.failure_type_counts),
                                 ttf_calculations_count |-> Cardinality(DOMAIN summary)])
                       ELSE st]

----------------------------------------------------------------------------
(* Action item ledger *)

\* a faulty variant of uuid4: every item gets the same id
uuid4_Constant(n) == <<"u">>

\* str(uuid.uuid4()): the n-th id handed out; ids never repeat
uuid4(n) == <<"u">> \o IntStr(n)

DefaultStatus == <<"o", "p", "e", "n">>

add_action_item(description, owner, status, tool_context, st, n, now) ==
    IF IsEmptyStr(description)
    THEN [ret |-> Error("Action item description cannot be empty."),
          state |-> st, uuids |-> n, clock |-> now]
    ELSE IF owner # None /\ ~IsStr(owner)
    THEN [ret |-> Error("Owner must be a string if provided."),
          state |-> st, uuids |-> n, clock |-> now]
    ELSE IF IsEmptyStr(status)
    THEN [ret |-> Error("Status must be a non-empty string."),
          state |-> st, uuids |-> n, clock |-> now]
    ELSE
        LET action_item == [id |-> uuid4(n),
                            description |-> description,
                            owner |-> owner,
                            status |-> status,
                            created_at |-> now]
        IN  IF tool_context
            THEN [ret |-> [success |-> TRUE, action_item_added |-> action_item],
                  state |-> Log(st, "action_items", action_item),
                  uuids |-> n + 1, clock |-> now + 1]
            ELSE [ret |-> Error("Tool context not available. Cannot save action item."),
                  state |-> st, uuids |-> n + 1, clock |-> now + 1]

\* a faulty variant of StatusMatches: the comparison minds the case
StatusMatches_CaseSensitive(a, status_filter) == a.status = status_filter

\* a.get('status', '').lower() == status_filter.lower()
StatusMatches(a, status_filter) == Lower(a.status) = Lower(status_filter)

\* a.get('owner', '').lower() == owner_filter.lower()
OwnerMatches(a, owner_filter) == Lower(a.owner) = Lower(owner_filter)

list_action_items(status_filter, owner_filter, tool_context, st) ==
    IF tool_context /\ "action_items" \in DOMAIN st
    THEN
        LET actions0 == st["action_items"]
            byStatus(a) == StatusMatches(a, status_filter)
            actions1 == IF Truthy(status_filter) THEN SelectSeq(actions0, byStatus)
                        ELSE actions0
            byOwner(a) == OwnerMatches(a, owner_filter)
        IN  IF Truthy(status_filter) /\ ~IsStr(status_filter)
            THEN [ret |-> Error("Status filter must be a string."), state |-> st]
            ELSE IF Truthy(owner_filter)
            THEN IF ~IsStr(owner_filter)
                 THEN [ret |-> Error("Owner filter must be a string."), state |-> st]
                 \* a.get('owner', '') is None for an item added without owner:
                 \* None.lower() raises AttributeError
                 ELSE IF \E i \in DOMAIN actions1 : actions1[i].owner = None
                 THEN [ret |-> Raised("AttributeError"), state |-> st]
                 ELSE [ret |-> [action_items |-> SelectSeq(actions1, byOwner)], state |-> st]
            ELSE [ret |-> [action_items |-> actions1], state |-> st]
    ELSE [ret |-> [action_items |-> <<>>], state |-> st]

\* a faulty variant of UpdatedItem: the time of creation is overwritten too
UpdatedItem_Recreated(item, new_status, now) ==
    [k \in DOMAIN item \cup {"updated_at"} |->
        IF k = "status" THEN new_status
        ELSE IF k \in {"updated_at", "created_at"} THEN now
        ELSE item[k]]

\* item['status'] = new_status; item['updated_at'] = now
UpdatedItem(item, new_status, now) ==
    [k \in DOMAIN item \cup {"updated_at"} |->
        IF k = "status" THEN new_status
        ELSE IF k = "updated_at" THEN now
        ELSE item[k]]

update_action_item_status(action_id, new_status, tool_context, st, now) ==
    IF IsEmptyStr(action_id)
    THEN [ret |-> Error("Action ID must be a non-empty string."), state |-> st, clock |-> now]
    ELSE IF IsEmptyStr(new_status)
    THEN [ret |-> Error("New status must be a non-empty string."), state |-> st, clock |-> now]
    ELSE IF tool_context /\ "action_items" \in DOMAIN st
    THEN
        LET actions == st["action_items"]
            hits == {i \in DOMAIN actions : actions[i].id = action_id}
        IN  IF hits # {}
            THEN LET i == CHOOSE j \in hits : \A k \in hits : j <= k
                     item == UpdatedItem(actions[i], new_status, now)
                 IN  [ret |-> [success |-> TRUE, updated_action_item |-> item],
                      state |-> [st EXCEPT !["action_items"] = [actions EXCEPT ![i] = item]],
                      clock |-> now + 1]
            ELSE [ret |-> Error("Action item with ID not found."), state |-> st, clock |-> now]
    ELSE [ret |-> Error("No action items found in context or context unavailable."),
          state |-> st, clock |-> now]

----------------------------------------------------------------------------
(* 5-Whys root cause analysis *)

\* "\n".join(lines)
RECURSIVE Join(_)
Join(lines) ==
    IF lines = <<>> THEN <<>>
    ELSE IF Len(lines) = 1 THEN lines[1]
    ELSE lines[1] \o <<"\n">> \o Join(Tail(lines))

TerminalDepth == 5

ConclusionPrompt ==
    Str("We have reached 5 'Whys'. Do you feel we have identified a potential root cause, or would you like to delve deeper?")

\* analysis_path: the initial problem line, then one numbered line per why
AnalysisPath(problem_statement, whys) ==
    <<Str("Initial Problem: ") \o problem_statement>> \o
    [i \in 1..Len(whys) |->
        IntStr(i) \o Str(". Q: ") \o whys[i].why_question
                  \o Str(" A: ") \o whys[i].user_answer]

\* a faulty variant of IsTerminal: one why too many is asked
IsTerminal_Late(current_depth) == current_depth > TerminalDepth

\* "if current_depth >= 5"
IsTerminal(current_depth) == current_depth >= TerminalDepth

\* a faulty variant of NextQuestion: every question asks about the problem
NextQuestion_Problem(problem_statement, last_answer, current_depth) ==
    Str("Why is '") \o problem_statement \o Str("' happening?")

\* the first question asks about the problem, the later ones about the last answer
NextQuestion(problem_statement, last_answer, current_depth) ==
    IF current_depth = 0 /\ Truthy(problem_statement)
    THEN Str("Why is '") \o problem_statement \o Str("' happening?")
    ELSE Str("Why did '") \o last_answer \o Str("' occur?")

\* a faulty variant of LogRca: the trace record is appended in any case
LogRca_Always(st, rca_log_entry) == Log(st, "rca_sessions", rca_log_entry)

\* the trace record is appended unless an equal one is already there
LogRca(st, rca_log_entry) ==
    IF \E i \in DOMAIN Topic(st, "rca_sessions") : st["rca_sessions"][i] = rca_log_entry
    THEN st
    ELSE Log(st, "rca_sessions", rca_log_entry)

guide_root_cause_analysis_5whys(problem_statement, previous_whys, tool_context, st) ==
    IF IsEmptyStr(problem_statement)
    THEN [ret |-> Error("Problem statement cannot be empty."), state |-> st]
    ELSE
        LET \* "if previous_whys": None and [] are both falsy
            whys == IF previous_whys = NoneList THEN <<>> ELSE previous_whys
            current_depth == Len(whys)
            analysis_path == AnalysisPath(problem_statement, whys)
            rca_log_entry == [problem |-> problem_statement,
                              path |-> analysis_path,
                              depth |-> current_depth]
            st1 == IF tool_context THEN LogRca(st, rca_log_entry) ELSE st
            last_answer == IF whys # <<>> THEN whys[Len(whys)].user_answer
                           ELSE problem_statement
            next_question == NextQuestion(problem_statement, last_answer, current_depth)
        IN  IF IsTerminal(current_depth)
            THEN [ret |-> [conclusion_prompt |-> ConclusionPrompt,
                           current_depth |-> current_depth,
                           analysis_summary |-> Join(analysis_path)],
                  state |-> st1]
            ELSE IF whys # <<>> /\ IsEmptyStr(last_answer)
            THEN [ret |-> Error("The answer to 'Why #' was empty. Please provide a valid answer."),
                  state |-> st1]
            ELSE [ret |-> [next_prompt_for_user |-> next_question,
                           current_depth |-> current_depth + 1,
                           analysis_summary |-> Join(analysis_path)],
                  state |-> st1]

----------------------------------------------------------------------------
(* The calls as actions on the session *)

NoCall == [op |-> "none"]

NoResult == [none |-> TRUE]

Init ==
    /\ state = EmptyState
    /\ clock = 0
    /\ uuids = 0
    /\ call = NoCall
    /\ result = NoResult

\* the orchestrator relays the result of the call and is ready for the next one
Respond ==
    /\ call # NoCall
    /\ call' = NoCall
    /\ result' = NoResult
    /\ UNCHANGED <<state, clock, uuids>>

Call_add_action_item(description, owner, status, tool_context) ==
    LET r == add_action_item(description, owner, status, tool_context, state, uuids, clock)
    IN  /\ call = NoCall
        /\ state' = r.state
        /\ uuids' = r.uuids
        /\ clock' = r.clock
        /\ call' = [op |-> "add_action_item", description |-> description,
                    owner |-> owner, status |-> status, tool_context |-> tool_context]
        /\ result' = r.ret

Call_list_action_items(status_filter, owner_filter, tool_context) ==
    LET r == list_action_items(status_filter, owner_filter, tool_context, state)
    IN  /\ call = NoCall
        /\ state' = r.state
        /\ call' = [op |-> "list_action_items", status_filter |-> status_filter,
                    owner_filter |-> owner_filter, tool_context |-> tool_context]
        /\ result' = r.ret
        /\ UNCHANGED <<uuids, clock>>

Call_update_action_item_status(action_id, new_status, tool_context) ==
    LET r == update_action_item_status(action_id, new_status, tool_context, state, clock)
    IN  /\ call = NoCall
        /\ state' = r.state
        /\ clock' = r.clock
        /\ call' = [op |-> "update_action_item_status", action_id |-> action_id,
                    new_status |-> new_status, tool_context |-> tool_context]
        /\ result' = r.ret
        /\ UNCHANGED uuids

Call_guide_root_cause_analysis_5whys(problem_statement, previous_whys, tool_context) ==
    LET r == guide_root_cause_analysis_5whys(problem_statement, previous_whys,
                                             tool_context, state)
    IN  /\ call = NoCall
        /\ state' = r.state
        /\ call' = [op |-> "guide_root_cause_analysis_5whys",
                    problem_statement |-> problem_statement,
                    previous_whys |-> previous_whys, tool_context |-> tool_context]
        /\ result' = r.ret
        /\ UNCHANGED <<uuids, clock>>

Call_calculate_yield_metrics(total_units, defective_units, tool_context) ==
    LET r == calculate_yield_metrics(total_units, defective_units, tool_context, state)
    IN  /\ call = NoCall
        /\ state' = r.state
        /\ call' = [op |-> "calculate_yield_metrics", total_units |-> total_units,
                    defective_units |-> defective_units, tool_context |-> tool_context]
        /\ result' = r.ret
        /\ UNCHANGED <<uuids, clock>>

Call_identify_low_yield_stages(production_data_per_stage, yield_threshold, tool_context) ==
    LET r == identify_low_yield_stages(production_data_per_stage, yield_threshold,
                                       tool_context, state)
    IN  /\ call = NoCall
        /\ state' = r.state
        /\ call' = [op |-> "identify_low_yield_stages",
                    production_data_per_stage |-> production_data_per_stage,
                    yield_threshold |-> yield_threshold, tool_context |-> tool_context]
        /\ result' = r.ret
        /\ UNCHANGED <<uuids, clock>>

Call_suggest_improvement_actions(low_yield_stages, common_defect_types, spc_out_of_control_points, rca_summary, tool_context) ==
    LET r == suggest_improvement_actions(low_yield_stages, common_defect_types,
                                         spc_out_of_control_points, rca_summary,
                                         tool_context, state)
    IN  /\ call = NoCall
        /\ state' = r.state
        /\ call' = [op |-> "suggest_improvement_actions",
                    low_yield_stages |-> low_yield_stages,
                    common_defect_types |-> common_defect_types,
                    spc_out_of_control_points |-> spc_out_of_control_points,
                    rca_summary |-> rca_summary, tool_context |-> tool_context]
        /\ result' = r.ret
        /\ UNCHANGED <<uuids, clock>>

Call_calculate_spc_metrics_and_limits(data_points, control_limit_sigma, tool_context) ==
    LET r == calculate_spc_metrics_and_limits(data_points, control_limit_sigma,
                                              tool_context, state)
    IN  /\ call = NoCall
        /\ state' = r.state
        /\ call' = [op |-> "calculate_spc_metrics_and_limits", data_points |-> data_points,
                    control_limit_sigma |-> control_limit_sigma,
                    tool_context |-> tool_context]
        /\ result' = r.ret
        /\ UNCHANGED <<uuids, clock>>

Call_identify_out_of_control_points(data_points, upper_control_limit, lower_control_limit, tool_context) ==
    LET r == identify_out_of_control_points(data_points, upper_control_limit,
                                            lower_control_limit, tool_context, state)
    IN  /\ call = NoCall
        /\ state' = r.state
        /\ call' = [op |-> "identify_out_of_control_points", data_points |-> data_points,
                    upper_control_limit |-> upper_control_limit,
                    lower_control_limit |-> lower_control_limit,
                    tool_context |-> tool_context]
        /\ result' = r.ret
        /\ UNCHANGED <<uuids, clock>>

Call_detect_simple_anomalies(data_points, window_size, std_dev_threshold, absolute_upper_threshold, absolute_lower_threshold, tool_context) ==
    LET r == detect_simple_anomalies(data_points, window_size, std_dev_threshold,
                                     absolute_upper_threshold, absolute_lower_threshold,
                                     tool_context, state)
    IN  /\ call = NoCall
        /\ state' = r.state
        /\ call' = [op |-> "detect_simple_anomalies", data_points |-> data_points,
                    window_size |-> window_size, std_dev_threshold |-> std_dev_threshold,
                    absolute_upper_threshold |-> absolute_upper_threshold,
                    absolute_lower_threshold |-> absolute_lower_threshold,
                    tool_context |-> tool_context]
        /\ result' = r.ret
        /\ UNCHANGED <<uuids, clock>>

Call_identify_simple_failure_patterns(event_data, maintenance_completed_event_type, tool_context) ==
    LET r == identify_simple_failure_patterns(event_data, maintenance_completed_event_type,
                                              tool_context, state)
    IN  /\ call = NoCall
        /\ state' = r.state
        /\ call' = [op |-> "identify_simple_failure_patterns", event_data |-> event_data,
                    maintenance_completed_event_type |-> maintenance_completed_event_type,
                    tool_context |-> tool_context]
        /\ result' = r.ret
        /\ UNCHANGED <<uuids, clock>>

\* knowledge_base is what the call finds in the knowledge base file
Call_query_knowledge_base(search_keywords, tool_context, knowledge_base) ==
    LET r == query_knowledge_base(search_keywords, tool_context, state, knowledge_base)
    IN  /\ call = NoCall
        /\ state' = r.state
        /\ call' = [op |-> "query_knowledge_base", search_keywords |-> search_keywords,
                    tool_context |-> tool_context, knowledge_base |-> knowledge_base]
        /\ result' = r.ret
        /\ UNCHANGED <<uuids, clock>>

----------------------------------------------------------------------------
(* Bounds and inputs *)

MaxItems == 3       \* action items in the ledger
MaxClock == 3       \* readings of the clock

Empty == <<>>
Blank == <<" ">>
OPEN == <<"O", "P", "E", "N">>
Closed == <<"C", "l", "o", "s", "e", "d">>
closed == <<"c", "l", "o", "s", "e", "d">>
Bob == <<"B", "o", "b">>
BOB == <<"B", "O", "B">>
Al == <<"A", "l">>

Descriptions == {<<"d">>, Blank}
Owners == {None, Bob}
AddStatuses == {DefaultStatus, Blank}
NewStatuses == {Closed, Blank}
StatusFilters == {None, Empty, OPEN, closed}
OwnerFilters == {None, BOB, Al}
\* every id handed out so far, the next one (not yet in any ledger), and blank ids
ActionIds == {uuid4(k) : k \in 0..uuids} \cup {Empty, Blank}

\* the calls are made with the session's tool context; one call of each
\* function is also made without it
AddArgs ==
    (Descriptions \X Owners \X AddStatuses \X {TRUE})
        \cup {<<(<<"d">>), None, DefaultStatus, FALSE>>}
ListArgs ==
    (StatusFilters \X OwnerFilters \X {TRUE}) \cup {<<None, None, FALSE>>}
UpdateArgs ==
    (ActionIds \X NewStatuses \X {TRUE}) \cup {<<uuid4(0), Closed, FALSE>>}

NextLedger ==
    \/ /\ Len(Topic(state, "action_items")) < MaxItems
       /\ clock < MaxClock
       /\ \E a \in AddArgs : Call_add_action_item(a[1], a[2], a[3], a[4])
    \/ \E a \in ListArgs : Call_list_action_items(a[1], a[2], a[3])
    \/ /\ clock < MaxClock
       /\ \E a \in UpdateArgs : Call_update_action_item_status(a[1], a[2], a[3])
    \/ /\ "calculations" \notin DOMAIN state
       /\ Call_calculate_yield_metrics(2, 1, TRUE)
    \/ Respond

SpecLedger == Init /\ [][NextLedger]_vars

MaxRca == 2         \* trace records in rca_sessions

Problem == <<"P">>
Answer == <<"a">>
Question == <<"q">>

\* a history of d whys; the answers are non-empty, the last one blank on request
Whys(d, lastBlank) ==
    [i \in 1..d |-> [why_question |-> Question,
                     user_answer |-> IF lastBlank /\ i = d THEN Blank ELSE Answer]]

Problems == {Problem, Blank}
PreviousWhys ==
    {NoneList}
        \cup {Whys(d, FALSE) : d \in 0..(TerminalDepth + 1)}
        \cup {Whys(d, TRUE) : d \in {1, TerminalDepth - 1, TerminalDepth}}

GuideArgs ==
    (Problems \X PreviousWhys \X {TRUE}) \cup {<<Problem, Whys(1, FALSE), FALSE>>}

NextRca ==
    \/ \E a \in GuideArgs :
        /\ Call_guide_root_cause_analysis_5whys(a[1], a[2], a[3])
        /\ Len(Topic(state', "rca_sessions")) <= MaxRca
    \/ Respond

SpecRca == Init /\ [][NextRca]_vars

----------------------------------------------------------------------------
(* The whole toolkit on one session: every tool, each with a few arguments *)
(* that take it through its checks and through a successful call.          *)

MaxRecords == 2     \* records in the session store, over all topics

StageA ==
    [stage_name |-> <<"A">>, input_units |-> PyInt(100), output_units |-> PyInt(85)]

StageB ==
    [stage_name |-> <<"B">>, input_units |-> PyInt(10), output_units |-> PyInt(10)]

BadStages ==
    {[stage_name |-> <<"C">>, input_units |-> PyInt(10)],
     [stage_name |-> <<"C">>, input_units |-> PyFloat(Rat(21, 2)), output_units |-> PyInt(1)],
     [stage_name |-> <<"C">>, input_units |-> PyInt(0), output_units |-> PyInt(0)],
     [stage_name |-> <<"C">>, input_units |-> PyInt(10), output_units |-> PyInt(-1)],
     [stage_name |-> <<"C">>, input_units |-> PyInt(10), output_units |-> PyInt(11)]}

YieldArgs == ({0, 2} \X {-1, 1, 3} \X {TRUE}) \cup {<<2, 1, FALSE>>}

LowYieldArgs ==
    ({<<StageA, StageB>>} \X {Rat(9, 10), Rat(0, 1)} \X {TRUE})
        \cup {<<NotAList, Rat(9, 10), TRUE>>, <<(<<StageA>>), Rat(9, 10), FALSE>>}
        \cup {<<(<<StageA, bad>>), Rat(9, 10), TRUE>> : bad \in BadStages}

LowEntry == [stage_name |-> <<"A">>, yield |-> Rat(17, 20)]
Scratch == <<"s", "c", "r", "a", "t", "c", "h">>
OocPoint == [index |-> 1, value |-> RInt(50)]

SuggestArgs ==
    {<<NoneList, NoneList, NoneList, None, TRUE>>,
     <<(<<LowEntry>>), (<<PyStr(Scratch)>>), (<<OocPoint>>), (<<"r", "c">>), TRUE>>,
     <<(<<LowEntry>>), NoneList, NoneList, None, FALSE>>,
     <<NotAList, NoneList, NoneList, None, TRUE>>,
     <<NoneList, NotAList, NoneList, None, TRUE>>,
     <<NoneList, NoneList, NotAList, None, TRUE>>,
     <<NoneList, NoneList, NoneList, NonStr, TRUE>>,
     <<(<<[yield |-> Rat(1, 2)]>>), NoneList, NoneList, None, TRUE>>,
     <<NoneList, (<<PyInt(7)>>), NoneList, None, TRUE>>}

SpcArgs ==
    {<<(<<PyInt(1), PyInt(3)>>), RInt(3), TRUE>>,
     <<(<<PyInt(1), PyInt(3)>>), RInt(3), FALSE>>,
     <<(<<PyInt(1)>>), RInt(3), TRUE>>,
     <<NotAList, RInt(3), TRUE>>,
     <<(<<PyInt(1), PyStr(Scratch)>>), RInt(3), TRUE>>,
     <<(<<PyInt(1), PyInt(3)>>), RInt(0), TRUE>>}

Series == <<PyInt(5), PyInt(50), PyInt(5)>>

OocArgs ==
    {<<Series, PyInt(20), PyInt(0), TRUE>>,
     <<Series, PyInt(20), PyInt(0), FALSE>>,
     <<(<<>>), PyInt(20), PyInt(0), TRUE>>,
     <<(<<PyStr(Scratch)>>), PyInt(20), PyInt(0), TRUE>>,
     <<Series, PyStr(Scratch), PyInt(0), TRUE>>,
     <<Series, PyInt(0), PyInt(20), TRUE>>}

AnomalyArgs ==
    {<<Series, 3, RInt(1), PyNone, PyNone, TRUE>>,
     <<Series, 3, RInt(1), PyInt(20), PyInt(0), FALSE>>,
     <<Series, 4, RInt(1), PyNone, PyNone, TRUE>>,
     <<(<<PyInt(5), PyStr(Scratch)>>), 2, RInt(1), PyNone, PyNone, TRUE>>,
     <<Series, 1, RInt(1), PyNone, PyNone, TRUE>>,
     <<Series, 3, RInt(0), PyNone, PyNone, TRUE>>,
     <<Series, 3, RInt(1), PyStr(Scratch), PyNone, TRUE>>,
     <<Series, 3, RInt(1), PyNone, PyStr(Scratch), TRUE>>,
     <<Series, 3, RInt(1), PyInt(0), PyInt(20), TRUE>>}

Maintenance ==
    <<"m", "a", "i", "n", "t", "e", "n", "a", "n", "c", "e", "_",
      "c", "o", "m", "p", "l", "e", "t", "e", "d">>
FailureA == <<"f", "a", "i", "l", "u", "r", "e", "_", "A">>
ItemX == PyStr(<<"X">>)

Event(item_id, event_type, minutes) ==
    [item_id |-> item_id, event_type |-> event_type, timestamp |-> PyInt(minutes)]

Events == <<Event(ItemX, FailureA, 120), Event(ItemX, Maintenance, 0)>>

FailureArgs ==
    {<<Events, Maintenance, TRUE>>,
     <<Events, Maintenance, FALSE>>,
     <<(<<>>), Maintenance, TRUE>>,
     <<(<<[item_id |-> ItemX, event_type |-> FailureA]>>), Maintenance, TRUE>>,
     <<(<<[item_id |-> ItemX, event_type |-> FailureA, timestamp |-> PyStr(Scratch)]>>),
       Maintenance, TRUE>>,
     <<(<<Event(ItemX, FailureA, 120), Event(PyInt(7), FailureA, 0)>>), Maintenance, TRUE>>}

\* the knowledge base files a session may find
KbEntry1 ==
    [keywords |-> <<(<<"F", "l", "u", "x">>), (<<"v", "o", "i", "d">>)>>,
     problem_summary |-> <<"S", "o", "l", "d", "e", "r", " ", "g", "a", "p">>,
     possible_causes |-> <<>>,
     suggested_solutions |-> <<>>]

KbEntry2 ==
    [keywords |-> <<(<<"w", "a", "r", "p">>)>>,
     problem_summary |-> <<"B", "e", "n", "t">>,
     possible_causes |-> <<>>,
     suggested_solutions |-> <<>>]

KbFiles == {KbMissing, KbMalformed, KbFile(<<KbEntry1, KbEntry2>>), KbFile(<<KbEntry2>>)}

Catalog == KbFile(<<KbEntry1, KbEntry2>>)

KbArgs ==
    ({<<PyStr(<<"F", "L", "U", "X">>)>>} \X {TRUE} \X KbFiles)
        \cup {<<(<<PyStr(<<"F", "L", "U", "X">>)>>), FALSE, Catalog>>,
              <<(<<>>), TRUE, Catalog>>,
              <<(<<PyInt(7)>>), TRUE, Catalog>>}

GuideArgsFew ==
    {<<Problem, NoneList, TRUE>>,
     <<Problem, Whys(1, FALSE), TRUE>>,
     <<Problem, Whys(1, TRUE), TRUE>>,
     <<Blank, Whys(1, FALSE), TRUE>>,
     <<Problem, Whys(1, FALSE), FALSE>>}

AddArgsFew ==
    {<<(<<"d">>), None, DefaultStatus, TRUE>>,
     <<(<<"d">>), None, DefaultStatus, FALSE>>,
     <<Blank, None, DefaultStatus, TRUE>>,
     <<(<<"d">>), NonStr, DefaultStatus, TRUE>>,
     <<(<<"d">>), None, Blank, TRUE>>}

ListArgsFew ==
    {<<None, None, TRUE>>, <<OPEN, None, TRUE>>, <<None, None, FALSE>>,
     <<NonStr, None, TRUE>>, <<None, NonStr, TRUE>>}

\* the call leaves at most MaxRecords records in the store
Fits == TotalRecords(state') <= MaxRecords

Next ==
    \/ \E a \in YieldArgs :
        Call_calculate_yield_metrics(a[1], a[2], a[3]) /\ Fits
    \/ \E a \in LowYieldArgs :
        Call_identify_low_yield_stages(a[1], a[2], a[3]) /\ Fits
    \/ \E a \in SuggestArgs :
        Call_suggest_improvement_actions(a[1], a[2], a[3], a[4], a[5]) /\ Fits
    \/ \E a \in SpcArgs :
        Call_calculate_spc_metrics_and_limits(a[1], a[2], a[3]) /\ Fits
    \/ \E a \in OocArgs :
        Call_identify_out_of_control_points(a[1], a[2], a[3], a[4]) /\ Fits
    \/ \E a \in AnomalyArgs :
        Call_detect_simple_anomalies(a[1], a[2], a[3], a[4], a[5], a[6]) /\ Fits
    \/ \E a \in FailureArgs :
        Call_identify_simple_failure_patterns(a[1], a[2], a[3]) /\ Fits
    \/ \E a \in KbArgs :
        Call_query_knowledge_base(a[1], a[2], a[3]) /\ Fits
    \/ \E a \in GuideArgsFew :
        Call_guide_root_cause_analysis_5whys(a[1], a[2], a[3]) /\ Fits
    \/ \E a \in AddArgsFew :
        clock < MaxClock /\ Call_add_action_item(a[1], a[2], a[3], a[4]) /\ Fits
    \/ \E a \in ListArgsFew : Call_list_action_items(a[1], a[2], a[3])
    \/ \E a \in UpdateArgs :
        clock < MaxClock /\ Call_update_action_item_status(a[1], a[2], a[3])
    \/ Respond

Spec == Init /\ [][Next]_vars

----------------------------------------------------------------------------
(* The failure pattern miner on event lists of an item X, with             *)
(* maintenance and two other event types at three times, and of an item Y  *)
(* with maintenance and one other event type at one time.                  *)

MaxEvents == 3      \* events in a list

ItemY == PyStr(<<"Y">>)
FailureB == <<"f", "a", "i", "l", "u", "r", "e", "_", "B">>
Minutes == {0, 10, 120}

EventChoices ==
    {Event(ItemX, t, m) : t \in {Maintenance, FailureA, FailureB}, m \in Minutes}
        \cup {Event(ItemY, t, 10) : t \in {Maintenance, FailureA}}

EventLists == UNION {[1..n -> EventChoices] : n \in 1..MaxEvents}

\* one mined list per session
NextFailure ==
    \/ /\ "failure_pattern_runs" \notin DOMAIN state
       /\ \E event_data \in EventLists :
            Call_identify_simple_failure_patterns(event_data, Maintenance, TRUE)
    \/ Respond

SpecFailure == Init /\ [][NextFailure]_vars

----------------------------------------------------------------------------
(* The yield calculator on every pair of unit counts from -1 to MaxUnits.  *)

MaxUnits == 4       \* units in a lot
MaxCalculations == 2    \* records in "calculations"

UnitCounts == (-1)..MaxUnits

NextYield ==
    \/ \E total_units, defective_units \in UnitCounts :
        /\ Call_calculate_yield_metrics(total_units, defective_units, TRUE)
        /\ Len(Topic(state', "calculations")) <= MaxCalculations
    \/ Call_calculate_yield_metrics(MaxUnits, 1, FALSE)
    \/ Respond

SpecYield == Init /\ [][NextYield]_vars

----------------------------------------------------------------------------
(* The low-yield finder on lists of stages, valid ones and rejected ones.  *)

MaxStages == 2      \* stages in a list

StageD ==
    [stage_name |-> <<"D">>, input_units |-> PyInt(10), output_units |-> PyInt(9)]

StageChoices == {StageA, StageB, StageD} \cup BadStages

StageLists == UNION {[1..n -> StageChoices] : n \in 0..MaxStages}

Thresholds == {Rat(4, 5), Rat(9, 10), Rat(1, 1), Rat(0, 1), Rat(3, 2)}

\* one logged analysis per session
NextStages ==
    \/ /\ "low_yield_analysis" \notin DOMAIN state
       /\ \E production_data_per_stage \in StageLists, yield_threshold \in Thresholds :
            Call_identify_low_yield_stages(production_data_per_stage, yield_threshold, TRUE)
    \/ Respond

SpecStages == Init /\ [][NextStages]_vars

----------------------------------------------------------------------------
(* The out-of-control check on series of measurements, with the limits     *)
(* taken from the measured values.                                         *)

MaxPoints == 3      \* measurements in a series

Measurements == {PyInt(0), PyInt(5), PyInt(20), PyFloat(Rat(41, 2)), PyInt(50)}

SeriesChoices == UNION {[1..n -> Measurements] : n \in 1..MaxPoints}

Limits == {PyInt(0), PyInt(5), PyInt(20)}

\* one logged check per session
NextOoc ==
    \/ /\ "spc_ooc_checks" \notin DOMAIN state
       /\ \E data_points \in SeriesChoices, upper_control_limit, lower_control_limit \in Limits :
            Call_identify_out_of_control_points(data_points, upper_control_limit,
                                                lower_control_limit, TRUE)
    \/ Respond

SpecOoc == Init /\ [][NextOoc]_vars

----------------------------------------------------------------------------
(* The control limits on short series of measurements, negative ones       *)
(* included, with several widths of the limits.                            *)

MaxSamples == 3     \* measurements in a series

Samples == {PyInt(-2), PyInt(0), PyInt(1), PyInt(4), PyFloat(Rat(1, 2))}

SampleLists ==
    UNION {[1..n -> Samples] : n \in 1..MaxSamples}
        \cup {NotAList, <<PyInt(1), PyStr(Scratch)>>}

Sigmas == {RInt(3), RInt(1), Rat(1, 2), RInt(0)}

\* one logged analysis per session
NextSpc ==
    \/ /\ "spc_analysis" \notin DOMAIN state
       /\ \E data_points \in SampleLists, control_limit_sigma \in Sigmas,
             tool_context \in BOOLEAN :
            Call_calculate_spc_metrics_and_limits(data_points, control_limit_sigma,
                                                  tool_context)
    \/ Respond

SpecSpc == Init /\ [][NextSpc]_vars

----------------------------------------------------------------------------
(* Anomaly detection on short series, constant ones included, with         *)
(* several windows, widths of the rolling band and absolute thresholds.    *)

MaxSeries == 4      \* data points in a series

SeriesValues == {PyInt(5), PyInt(50), PyFloat(Rat(11, 2))}

SeriesLists == UNION {[1..n -> SeriesValues] : n \in 1..MaxSeries}

WindowSizes == {2, 3, 4}

StdDevThresholds == {Rat(1, 2), RInt(1)}

UpperThresholds == {PyNone, PyInt(20), PyInt(10)}

LowerThresholds == {PyNone, PyInt(10)}

\* one logged run per session
NextAnomaly ==
    \/ /\ "anomaly_detection_runs" \notin DOMAIN state
       /\ \E data_points \in SeriesLists, window_size \in WindowSizes,
             std_dev_threshold \in StdDevThresholds,
             absolute_upper_threshold \in UpperThresholds,
             absolute_lower_threshold \in LowerThresholds :
            Call_detect_simple_anomalies(data_points, window_size, std_dev_threshold,
                                         absolute_upper_threshold,
                                         absolute_lower_threshold, TRUE)
    \/ /\ "anomaly_detection_runs" \notin DOMAIN state
       /\ \E args \in AnomalyArgs :
            Call_detect_simple_anomalies(args[1], args[2], args[3], args[4], args[5],
                                         args[6])
    \/ Respond

SpecAnomaly == Init /\ [][NextAnomaly]_vars

----------------------------------------------------------------------------
(* Knowledge base queries with lists of keywords on several catalogs, in   *)
(* sessions that also log a yield calculation.                             *)

MaxKeywords == 2    \* keywords in a query

KeywordChoices == {PyStr(<<"F", "L", "U", "X">>), PyStr(<<"d", " ", "s">>), PyStr(<<>>)}

KeywordLists ==
    UNION {[1..n -> KeywordChoices] : n \in 0..MaxKeywords} \cup {<<PyInt(7)>>, NotAList}

\* an entry without keywords
KbEntry3 ==
    [problem_summary |-> <<"F", "l", "u", "x">>,
     possible_causes |-> <<>>,
     suggested_solutions |-> <<>>]

Catalogs ==
    KbFiles \cup {KbFile(<<KbEntry2, KbEntry1>>), KbFile(<<KbEntry2, KbEntry3, KbEntry1>>)}

\* one logged query and one logged calculation per session, and queries
\* that are not logged at any time
NextKb ==
    \/ /\ "kb_queries" \notin DOMAIN state
       /\ \E search_keywords \in KeywordLists, knowledge_base \in Catalogs :
            Call_query_knowledge_base(search_keywords, TRUE, knowledge_base)
    \/ \E search_keywords \in KeywordLists, knowledge_base \in Catalogs :
            Call_query_knowledge_base(search_keywords, FALSE, knowledge_base)
    \/ /\ "calculations" \notin DOMAIN state
       /\ Call_calculate_yield_metrics(2, 1, TRUE)
    \/ Respond

SpecKb == Init /\ [][NextKb]_vars

----------------------------------------------------------------------------
(* The failure pattern miner on the events of a line L and of its press    *)
(* L::P: maintenance, jams (J) and jams of the press reported for the line *)
(* (P::J).                                                                 *)

MaxLog == 3         \* events in a list

ItemL == PyStr(<<"L">>)
ItemLP == PyStr(<<"L", ":", ":", "P">>)
Jam == <<"J">>
PressJam == <<"P", ":", ":", "J">>

LogChoices ==
    {Event(ItemL, t, m) : t \in {Maintenance, Jam, PressJam}, m \in {0, 10}}
        \cup {Event(ItemLP, Jam, 10)}

LogLists == UNION {[1..n -> LogChoices] : n \in 1..MaxLog}

\* one logged run per session
NextPatterns ==
    \/ /\ "failure_pattern_runs" \notin DOMAIN state
       /\ \E event_data \in LogLists :
            Call_identify_simple_failure_patterns(event_data, Maintenance, TRUE)
    \/ Respond

SpecPatterns == Init /\ [][NextPatterns]_vars

----------------------------------------------------------------------------
(* The 5-Whys guide driven by replay: the caller starts with an empty      *)
(* history, answers each question it is asked and calls again with the     *)
(* history extended by the question and its answer; after the conclusion   *)
(* it calls again with the same or a longer history.                       *)

MaxHistory == 6     \* whys in a history

ReplayAnswers == {Answer, <<"b">>, Blank}

\* the caller calls again at once, with the history it has kept
Recall_guide_root_cause_analysis_5whys(problem_statement, previous_whys, tool_context) ==
    LET r == guide_root_cause_analysis_5whys(problem_statement, previous_whys,
                                             tool_context, state)
    IN  /\ call.op = "guide_root_cause_analysis_5whys"
        /\ state' = r.state
        /\ call' = [op |-> "guide_root_cause_analysis_5whys",
                    problem_statement |-> problem_statement,
                    previous_whys |-> previous_whys, tool_context |-> tool_context]
        /\ result' = r.ret
        /\ UNCHANGED <<uuids, clock>>

\* one logged analysis per session, and analyses that are not logged
StartReplay ==
    \E problem_statement \in Problems, tool_context \in BOOLEAN :
        /\ tool_context => "rca_sessions" \notin DOMAIN state
        /\ Call_guide_root_cause_analysis_5whys(problem_statement, <<>>, tool_context)

AnswerQuestion ==
    /\ call.op = "guide_root_cause_analysis_5whys"
    /\ "next_prompt_for_user" \in DOMAIN result
    /\ \E user_answer \in ReplayAnswers :
            Recall_guide_root_cause_analysis_5whys(
                call.problem_statement,
                Append(call.previous_whys,
                       [why_question |-> result.next_prompt_for_user,
                        user_answer |-> user_answer]),
                call.tool_context)

CallAfterConclusion ==
    /\ call.op = "guide_root_cause_analysis_5whys"
    /\ "conclusion_prompt" \in DOMAIN result
    /\ \E more \in {<<>>} \cup {<<[why_question |-> Question, user_answer |-> a]>> :
                                    a \in ReplayAnswers} :
            /\ Len(call.previous_whys) + Len(more) <= MaxHistory
            /\ Recall_guide_root_cause_analysis_5whys(call.problem_statement,
                                                      call.previous_whys \o more,
                                                      call.tool_context)

NextReplay ==
    \/ StartReplay
    \/ AnswerQuestion
    \/ CallAfterConclusion
    \/ Respond

SpecReplay == Init /\ [][NextReplay]_vars

----------------------------------------------------------------------------
(* Properties *)

Ledger(st) == Topic(st, "action_items")

\* the ledger a call can see: none without a tool context
VisibleLedger(st, tool_context) == IF tool_context THEN Ledger(st) ELSE <<>>

Succeeded(r) == "success" \in DOMAIN r

\* empty or made of white space only
IsBlank(s) == \A i \in DOMAIN s : s[i] \in WhiteSpace

SameLetter(c, d) ==
    \/ c = d
    \/ \E k \in DOMAIN UpperCase : {c, d} = {UpperCase[k], LowerCase[k]}

EqualsIgnoreCase(a, b) ==
    /\ a # None
    /\ b # None
    /\ Len(a) = Len(b)
    /\ \A i \in DOMAIN a : SameLetter(a[i], b[i])

\* needle occurs in hay as a contiguous part
Contains(hay, needle) ==
    \E i \in 0..(Len(hay) - Len(needle)) : SubSeq(hay, i + 1, i + Len(needle)) = needle

WithStatus(items, s) ==
    LET Test(a) == EqualsIgnoreCase(a.status, s) IN SelectSeq(items, Test)

WithOwner(items, o) ==
    LET Test(a) == EqualsIgnoreCase(a.owner, o) IN SelectSeq(items, Test)

CalledGuide == call.op = "guide_root_cause_analysis_5whys"
CalledList == call.op = "list_action_items"
CalledUpdate == call.op = "update_action_item_status"
CalledAdd == call.op = "add_action_item"

\* the tools whose failed calls are to leave the store alone
AtomicTools ==
    {"calculate_yield_metrics", "identify_low_yield_stages",
     "calculate_spc_metrics_and_limits", "identify_out_of_control_points",
     "detect_simple_anomalies", "identify_simple_failure_patterns",
     "add_action_item", "update_action_item_status", "query_knowledge_base",
     "suggest_improvement_actions"}

\* C1: a call of one of the ten tools of AtomicTools that returns an error
\* result leaves the session store, every topic and every entry of it, exactly
\* as it was before the call.
C1_ErrorLeavesStore ==
    [][(call'.op \in AtomicTools /\ IsError(result')) => state' = state]_vars

C1_Witness ==
    /\ call.op = "identify_low_yield_stages"
    /\ result = [error |-> "Output units cannot exceed input units for stage.",
                 stage |-> <<"C">>]
    /\ "low_yield_analysis" \in DOMAIN state
    /\ "calculations" \in DOMAIN state

\* C2: a guide_root_cause_analysis_5whys call that returns a validation error
\* (empty problem statement, or a blank most recent answer) leaves the whole
\* session store as it was, and so appends nothing to "rca_sessions".
C2_ErrorLeavesStore ==
    [][(call'.op = "guide_root_cause_analysis_5whys" /\ IsError(result'))
            => state' = state]_vars

\* a is the beginning of b
IsPrefix(a, b) == Len(a) <= Len(b) /\ SubSeq(b, 1, Len(a)) = a

\* C3: every step keeps every topic; of a topic other than "action_items" the
\* list before the step is a prefix of the list after it; of "action_items"
\* no entry is removed or moved, and an entry changes only in status and
\* updated_at, and only in a call of update_action_item_status.
C3_AppendOnly ==
    [][\A t \in DOMAIN state :
        /\ t \in DOMAIN state'
        /\ IF t # "action_items" THEN IsPrefix(state[t], state'[t])
           ELSE /\ Len(state[t]) <= Len(state'[t])
                /\ \A i \in DOMAIN state[t] :
                    \/ state'[t][i] = state[t][i]
                    \/ /\ call'.op = "update_action_item_status"
                       /\ DOMAIN state'[t][i] = DOMAIN state[t][i] \cup {"updated_at"}
                       /\ \A k \in DOMAIN state[t][i] \ {"status", "updated_at"} :
                            state'[t][i][k] = state[t][i][k]]_vars

C3_Witness ==
    /\ call.op = "guide_root_cause_analysis_5whys"
    /\ Len(Topic(state, "rca_sessions")) >= 2
    /\ state["rca_sessions"][2].depth = 1

\* C4: the ids of the items in the ledger are pairwise distinct: an add gives
\* the new item an id no earlier item carries, and no call changes the id of
\* an item (nor removes an item).
C4_DistinctIds ==
    [][LET old == Ledger(state)
           new == Ledger(state')
       IN  /\ \A i, j \in DOMAIN new : i # j => new[i].id # new[j].id
           /\ \A i \in DOMAIN old : i \in DOMAIN new /\ new[i].id = old[i].id
           /\ \A j \in DOMAIN new \ DOMAIN old :
                \A i \in DOMAIN old : new[j].id # old[i].id]_vars

C4_Witness ==
    /\ CalledUpdate
    /\ Succeeded(result)
    /\ Len(Ledger(state)) >= 2
    /\ \E i \in DOMAIN Ledger(state) : "updated_at" \notin DOMAIN Ledger(state)[i]

\* what an add with the default status and a successful update leave behind
C5_AddAndUpdate ==
    /\ (CalledAdd /\ Succeeded(result) /\ call.status = <<"o", "p", "e", "n">>)
            => /\ Ledger(state)[Len(Ledger(state))] = result.action_item_added
               /\ result.action_item_added.status = <<"o", "p", "e", "n">>
    /\ (CalledUpdate /\ Succeeded(result))
            => \A i \in DOMAIN Ledger(state) :
                    Ledger(state)[i].id = call.action_id
                        => Ledger(state)[i].status = call.new_status

\* C5 as stated: without filters list_action_items returns the whole ledger
\* in insertion order, and with status_filter = s exactly the items whose
\* status equals s ignoring case, in ledger order; an item added with the
\* default status has status "open", and a successful update gives the item
\* the new status.
C5_ListByStatus_AsStated ==
    /\ (CalledList /\ call.tool_context /\ call.owner_filter = None
            /\ call.status_filter # NonStr)
            => result.action_items =
                    IF call.status_filter = None THEN Ledger(state)
                    ELSE WithStatus(Ledger(state), call.status_filter)
    /\ C5_AddAndUpdate

\* C5 (amended): as stated for a non-empty status_filter; an empty string as
\* status_filter is no filter, and the whole ledger is returned.
C5_ListByStatus ==
    /\ (CalledList /\ call.tool_context /\ call.owner_filter = None
            /\ call.status_filter # NonStr)
            => result.action_items =
                    IF call.status_filter \in {None, <<>>} THEN Ledger(state)
                    ELSE WithStatus(Ledger(state), call.status_filter)
    /\ C5_AddAndUpdate

C5_Witness ==
    /\ CalledList
    /\ call.tool_context
    /\ call.owner_filter = None
    /\ call.status_filter = <<"c", "l", "o", "s", "e", "d">>
    /\ result.action_items # <<>>
    /\ Len(result.action_items) < Len(Ledger(state))

\* C6: a successful update_action_item_status(id, s) changes the status (to
\* s) and updated_at of the one item whose id is id, and nothing else: not
\* that item's other fields, no other item, not the length or order of the
\* ledger, no other topic of the store.
C6_UpdateFrame ==
    [][(call'.op = "update_action_item_status" /\ Succeeded(result')) =>
        LET old == Ledger(state)
            new == Ledger(state')
            hit == {i \in DOMAIN old : old[i].id = call'.action_id}
        IN  /\ Cardinality(hit) = 1
            /\ Len(new) = Len(old)
            /\ DOMAIN state' = DOMAIN state
            /\ \A t \in DOMAIN state \ {"action_items"} : state'[t] = state[t]
            /\ \A i \in DOMAIN old \ hit : new[i] = old[i]
            /\ \A i \in hit :
                /\ new[i].status = call'.new_status
                /\ new[i].updated_at = clock
                /\ DOMAIN new[i] = DOMAIN old[i] \cup {"updated_at"}
                /\ \A k \in DOMAIN old[i] \ {"status", "updated_at"} :
                        new[i][k] = old[i][k]
                /\ result'.updated_action_item = new[i]]_vars

C6_Witness ==
    /\ CalledUpdate
    /\ Succeeded(result)
    /\ Len(Ledger(state)) >= 2
    /\ Ledger(state)[2].id = call.action_id
    /\ "calculations" \in DOMAIN state

ValidationErrors ==
    {Error("Action ID must be a non-empty string."),
     Error("New status must be a non-empty string.")}

NotFoundErrors ==
    {Error("Action item with ID not found."),
     Error("No action items found in context or context unavailable.")}

\* C7: update_action_item_status(id, s) with a blank id or s returns a
\* validation error whatever the ledger holds; otherwise it succeeds if some
\* item of the ledger has the id, and returns a not-found error if none has
\* (also when nothing was ever added).
C7_UpdateOutcome ==
    [][(call'.op = "update_action_item_status") =>
        LET ledger == VisibleLedger(state, call'.tool_context)
        IN  IF IsBlank(call'.action_id) \/ IsBlank(call'.new_status)
            THEN result' \in ValidationErrors
            ELSE IF \E i \in DOMAIN ledger : ledger[i].id = call'.action_id
            THEN Succeeded(result')
            ELSE result' \in NotFoundErrors]_vars

C7_Witness ==
    /\ CalledUpdate
    /\ result = Error("Action item with ID not found.")
    /\ Len(Ledger(state)) >= 2

\* C8: list_action_items(owner_filter = o) with a non-empty o returns, on any
\* ledger, exactly the items whose owner equals o ignoring case, in ledger
\* order; it does not raise, and an item without owner does not match.
C8_ListByOwner ==
    (CalledList /\ call.tool_context /\ call.status_filter = None
        /\ call.owner_filter \notin {None, <<>>, NonStr})
        => /\ ~IsRaised(result)
           /\ result.action_items = WithOwner(Ledger(state), call.owner_filter)

\* the history a call works on: None is the empty history
History(previous_whys) == IF previous_whys = NoneList THEN <<>> ELSE previous_whys

RECURSIVE SummaryUpTo(_, _, _)
SummaryUpTo(problem, whys, n) ==
    IF n = 0 THEN <<"Initial Problem: ">> \o problem
    ELSE SummaryUpTo(problem, whys, n - 1)
            \o <<"\n">> \o IntStr(n) \o <<". Q: ">> \o whys[n].why_question
            \o <<" A: ">> \o whys[n].user_answer

\* C9: with a non-empty problem statement and a history of d >= 5 whys the
\* call is terminal: it returns the conclusion prompt and the summary of the
\* whole path, no next question, and reports depth d.
C9_Terminal ==
    (CalledGuide /\ ~IsBlank(call.problem_statement)
        /\ Len(History(call.previous_whys)) >= 5)
        => /\ "conclusion_prompt" \in DOMAIN result
           /\ "next_prompt_for_user" \notin DOMAIN result
           /\ result.current_depth = Len(call.previous_whys)
           /\ result.analysis_summary =
                SummaryUpTo(call.problem_statement, call.previous_whys,
                            Len(call.previous_whys))

C9_Witness ==
    /\ CalledGuide
    /\ Len(call.previous_whys) > 5
    /\ "conclusion_prompt" \in DOMAIN result
    /\ result.current_depth = Len(call.previous_whys)

\* C10: with a non-empty problem statement and a valid history of d < 5 whys
\* (None is the empty history) the call returns a next question, never a
\* conclusion, and reports depth d + 1; the question cites the problem
\* statement when d = 0 and the most recent answer when 1 <= d <= 4.
C10_NextQuestion ==
    LET whys == History(call.previous_whys)
        d == Len(whys)
    IN  (CalledGuide /\ ~IsBlank(call.problem_statement) /\ d < 5
            /\ (d > 0 => ~IsBlank(whys[d].user_answer)))
        => /\ "next_prompt_for_user" \in DOMAIN result
           /\ "conclusion_prompt" \notin DOMAIN result
           /\ result.current_depth = d + 1
           /\ IF d = 0
              THEN Contains(result.next_prompt_for_user, call.problem_statement)
              ELSE Contains(result.next_prompt_for_user, whys[d].user_answer)

C10_Witness ==
    /\ CalledGuide
    /\ call.previous_whys # NoneList
    /\ Len(call.previous_whys) = 4
    /\ "next_prompt_for_user" \in DOMAIN result
    /\ result.current_depth = 5

\* C11: guide_root_cause_analysis_5whys returns a validation error whenever
\* the problem statement is blank, and whenever the history has d > 0 whys,
\* d >= 5 included, and its most recent answer is blank.
C11_BlankRejected ==
    LET whys == History(call.previous_whys)
        d == Len(whys)
    IN  (CalledGuide
            /\ (IsBlank(call.problem_statement) \/ (d > 0 /\ IsBlank(whys[d].user_answer))))
        => IsError(result)

\* the trace record {problem, path, depth} of a problem and its history
TraceRecord(problem, whys) ==
    [problem |-> problem,
     path |-> [n \in 1..(Len(whys) + 1) |->
                IF n = 1 THEN <<"Initial Problem: ">> \o problem
                ELSE IntStr(n - 1) \o <<". Q: ">> \o whys[n - 1].why_question
                        \o <<" A: ">> \o whys[n - 1].user_answer],
     depth |-> Len(whys)]

Traces(st) == {Topic(st, "rca_sessions")[i] : i \in DOMAIN Topic(st, "rca_sessions")}

\* C12: "rca_sessions" never holds two equal trace records; a call with a
\* tool context and a problem statement leaves the trace record of its
\* arguments in the store, and a call whose trace record is already there (as
\* after an earlier call with the same arguments) leaves the store as it was.
C12_NoDuplicateTraces ==
    [][/\ \A i, j \in DOMAIN Topic(state', "rca_sessions") :
            i # j => state'["rca_sessions"][i] # state'["rca_sessions"][j]
       /\ (call'.op = "guide_root_cause_analysis_5whys") =>
            LET rec == TraceRecord(call'.problem_statement, History(call'.previous_whys))
            IN  /\ (call'.tool_context /\ ~IsBlank(call'.problem_statement))
                    => rec \in Traces(state')
                /\ rec \in Traces(state) => state' = state]_vars

\* a call repeated after a call with other arguments came in between
C12_Witness ==
    /\ CalledGuide
    /\ call.tool_context
    /\ Len(Topic(state, "rca_sessions")) = 2
    /\ state["rca_sessions"][1] =
            TraceRecord(call.problem_statement, History(call.previous_whys))

CalledMiner == call.op = "identify_simple_failure_patterns"

\* the events of the call in (item_id, timestamp) order
Sorted == SortEvents(call.event_data)

IsMaintenance(e) == e.event_type = call.maintenance_completed_event_type

\* the time-to-failure summary the call returned
Summary == result.identified_patterns.time_to_failure_after_maintenance_summary

KeyOf(e) == PatternKey(e.item_id, e.event_type)

\* the positions of the sorted events that directly follow a maintenance
\* event of their item and are no maintenance events themselves
FirstAfterMaintenance ==
    {j \in 2..Len(Sorted) :
        /\ ~IsMaintenance(Sorted[j])
        /\ Sorted[j - 1].item_id = Sorted[j].item_id
        /\ IsMaintenance(Sorted[j - 1])}

\* the number of samples recorded for an item, over all event types
SamplesOfItem(x) ==
    LET keys == {k \in DOMAIN Summary :
                    \E j \in DOMAIN Sorted : Sorted[j].item_id = x /\ KeyOf(Sorted[j]) = k}
        RECURSIVE Total(_)
        Total(ks) == IF ks = {} THEN 0
                     ELSE LET k == CHOOSE y \in ks : TRUE
                          IN  Len(Summary[k].all_hours) + Total(ks \ {k})
    IN  Total(keys)

\* C13: for each item only the first event that follows a maintenance event
\* and is none itself gives a time-to-failure sample, whatever its type: the
\* samples of an item are as many as such events, and never more than the
\* maintenance events of the item.
C13_OneSamplePerMaintenance ==
    (CalledMiner /\ ~IsError(result)) =>
        \A x \in {Sorted[j].item_id : j \in DOMAIN Sorted} :
            /\ SamplesOfItem(x)
                = Cardinality({j \in FirstAfterMaintenance : Sorted[j].item_id = x})
            /\ SamplesOfItem(x)
                <= Cardinality({j \in DOMAIN Sorted :
                                    Sorted[j].item_id = x /\ IsMaintenance(Sorted[j])})

\* maintenance of X, then a failure of type A and one of type B
C13_Witness ==
    /\ CalledMiner
    /\ ~IsError(result)
    /\ Len(Sorted) = 3
    /\ \A j \in 1..3 : Sorted[j].item_id = [str |-> <<"X">>]
    /\ IsMaintenance(Sorted[1])
    /\ ~IsMaintenance(Sorted[2])
    /\ ~IsMaintenance(Sorted[3])
    /\ Sorted[2].event_type # Sorted[3].event_type
    /\ SamplesOfItem([str |-> <<"X">>]) = 1

\* the position of the most recent maintenance event of the item of
\* Sorted[j] before position j, 0 if there is none
LastMaintenance(j) ==
    LET before == {i \in 1..(j - 1) :
                    Sorted[i].item_id = Sorted[j].item_id /\ IsMaintenance(Sorted[i])}
    IN  IF before = {} THEN 0 ELSE CHOOSE i \in before : \A h \in before : h <= i

\* the positions of the events that are the first of their type after the
\* most recent maintenance event of their item
FirstOfTypeAfterMaintenance ==
    {j \in DOMAIN Sorted :
        /\ ~IsMaintenance(Sorted[j])
        /\ LastMaintenance(j) > 0
        /\ \A i \in (LastMaintenance(j) + 1)..(j - 1) :
                Sorted[i].event_type # Sorted[j].event_type}

\* C14: a time-to-failure sample is recorded for the first occurrence of each
\* event type after a maintenance event of the item, and for no later repeat
\* of the type before the next maintenance event: after maintenance, a
\* failure of type A and one of type B give a sample for A and one for B.
C14_FirstOfEachType ==
    (CalledMiner /\ ~IsError(result)) =>
        \A j \in DOMAIN Sorted :
            LET k == KeyOf(Sorted[j])
            IN  (IF k \in DOMAIN Summary THEN Summary[k].count ELSE 0)
                    = Cardinality({i \in FirstOfTypeAfterMaintenance : KeyOf(Sorted[i]) = k})

\* the elements of a set of numbers in ascending order
RECURSIVE Ascending(_)
Ascending(S) ==
    IF S = {} THEN <<>>
    ELSE LET m == CHOOSE x \in S : \A y \in S : x <= y
         IN  <<m>> \o Ascending(S \ {m})

\* the positions of the sampled events with key k, in order
PositionsOf(k) == Ascending({j \in FirstAfterMaintenance : KeyOf(Sorted[j]) = k})

\* the hours between the event at position j and the most recent maintenance
\* event of its item before it
ElapsedHours(j) ==
    Rat(Sorted[j].timestamp.int - Sorted[LastMaintenance(j)].timestamp.int, 60)

\* r is q rounded to hundredths
IsRounded(r, q) ==
    /\ (r.num * 100) % r.den = 0
    /\ RLeq(RSub(r, q), Rat(1, 200))
    /\ RLeq(RSub(q, r), Rat(1, 200))

\* C15 as stated: every sample recorded for (item, type) is the elapsed hours
\* between its event and the most recent maintenance event of the same item
\* before it in (item_id, timestamp) order.
C15_ElapsedHours_AsStated ==
    (CalledMiner /\ ~IsError(result)) =>
        \A k \in DOMAIN Summary :
            /\ Summary[k].count = Len(PositionsOf(k))
            /\ Len(Summary[k].all_hours) = Len(PositionsOf(k))
            /\ \A n \in DOMAIN Summary[k].all_hours :
                    Summary[k].all_hours[n] = ElapsedHours(PositionsOf(k)[n])

\* C15 (amended): every sample is those elapsed hours rounded to two
\* decimals, and average_hours is the mean of the samples rounded to two
\* decimals; one maintenance event of X and a failure two hours later give
\* average_hours 2 and count 1.
C15_ElapsedHours ==
    (CalledMiner /\ ~IsError(result)) =>
        \A k \in DOMAIN Summary :
            /\ Summary[k].count = Len(PositionsOf(k))
            /\ Len(Summary[k].all_hours) = Len(PositionsOf(k))
            /\ \A n \in DOMAIN Summary[k].all_hours :
                    IsRounded(Summary[k].all_hours[n], ElapsedHours(PositionsOf(k)[n]))
            /\ IsRounded(Summary[k].average_hours, Mean(Summary[k].all_hours))
            /\ (Len(Sorted) = 2 /\ ElapsedHours(PositionsOf(k)[1]) = RInt(2))
                    => Summary[k].average_hours = RInt(2) /\ Summary[k].count = 1

\* a maintenance event of X overwritten by a later one, then a failure 110
\* minutes after the later one
C15_Witness ==
    /\ CalledMiner
    /\ ~IsError(result)
    /\ Len(Sorted) = 3
    /\ IsMaintenance(Sorted[1])
    /\ IsMaintenance(Sorted[2])
    /\ Sorted[1].item_id = Sorted[3].item_id
    /\ Sorted[1].timestamp.int = 0
    /\ \E k \in DOMAIN Summary : Summary[k].all_hours = <<Rat(183, 100)>>

CalledYield == call.op = "calculate_yield_metrics"

YieldErrors ==
    {Error("Total units must be a positive number."),
     Error("Defective units cannot be negative."),
     Error("Defective units cannot exceed total units.")}

\* C16: calculate_yield_metrics returns a validation error exactly when
\* total_units <= 0, defective_units < 0 or defective_units > total_units,
\* and the two rates for every other pair of integers.
C16_YieldValidation ==
    CalledYield =>
        IF call.total_units <= 0 \/ call.defective_units < 0
                \/ call.defective_units > call.total_units
        THEN result \in YieldErrors
        ELSE DOMAIN result = {"yield_rate", "defect_rate"}

\* every unit of the lot is defective: the last pair that is accepted
C16_Witness ==
    /\ CalledYield
    /\ call.total_units = call.defective_units
    /\ call.total_units > 0
    /\ "yield_rate" \in DOMAIN result

\* the rational q is n / d
IsQuotient(q, n, d) == q.den > 0 /\ q.num * d = n * q.den

\* C17: for total_units > 0 and 0 <= defective_units <= total_units the call
\* returns yield_rate = (total_units - defective_units) / total_units and
\* defect_rate = defective_units / total_units, both in [0, 1] and with sum 1
\* (the rates are exact rationals), and with a tool context it appends to
\* "calculations" the record of the two inputs and the two rates, and changes
\* nothing else.
C17_YieldRates ==
    [][(call'.op = "calculate_yield_metrics" /\ call'.total_units > 0
            /\ 0 <= call'.defective_units /\ call'.defective_units <= call'.total_units) =>
        LET y == result'.yield_rate
            f == result'.defect_rate
        IN  /\ IsQuotient(y, call'.total_units - call'.defective_units, call'.total_units)
            /\ IsQuotient(f, call'.defective_units, call'.total_units)
            /\ 0 <= y.num /\ y.num <= y.den
            /\ 0 <= f.num /\ f.num <= f.den
            /\ y.num * f.den + f.num * y.den = y.den * f.den
            /\ IF call'.tool_context
               THEN /\ DOMAIN state' = DOMAIN state \cup {"calculations"}
                    /\ \A t \in DOMAIN state \ {"calculations"} : state'[t] = state[t]
                    /\ state'["calculations"] =
                        Topic(state, "calculations") \o
                            <<[total_units |-> call'.total_units,
                               defective_units |-> call'.defective_units,
                               yield_rate |-> y,
                               defect_rate |-> f]>>
               ELSE state' = state]_vars

\* a second calculation, with rates that are no integers
C17_Witness ==
    /\ CalledYield
    /\ call.tool_context
    /\ call.total_units = 4
    /\ call.defective_units = 1
    /\ "yield_rate" \in DOMAIN result
    /\ Len(Topic(state, "calculations")) = 2

CalledLowYield == call.op = "identify_low_yield_stages"

\* a stage record that is accepted
ValidStage(s) ==
    /\ {"stage_name", "input_units", "output_units"} \subseteq DOMAIN s
    /\ "int" \in DOMAIN s.input_units
    /\ "int" \in DOMAIN s.output_units
    /\ s.input_units.int > 0
    /\ 0 <= s.output_units.int
    /\ s.output_units.int <= s.input_units.int

\* 0 < q <= 1
ValidThreshold(q) == 0 < q.num /\ q.num <= q.den

\* C18: for a list of valid stages and a threshold in (0, 1] the call returns
\* exactly the stages with output_units / input_units strictly below the
\* threshold, in the order of the input, each with its name, its yield and
\* its unit counts; a stage whose yield equals the threshold is not returned.
C18_LowYieldStages ==
    LET stages == call.production_data_per_stage
        q == call.yield_threshold
        Below(s) == s.output_units.int * q.den < q.num * s.input_units.int
    IN  (CalledLowYield /\ ValidThreshold(q)
            /\ \A i \in DOMAIN stages : ValidStage(stages[i])) =>
        LET low == SelectSeq(stages, Below)
            found == result.low_yield_stages
        IN  /\ DOMAIN result = {"low_yield_stages"}
            /\ Len(found) = Len(low)
            /\ \A n \in DOMAIN found :
                /\ DOMAIN found[n] = {"stage_name", "yield", "input_units", "output_units"}
                /\ found[n].stage_name = low[n].stage_name
                /\ found[n].input_units = low[n].input_units.int
                /\ found[n].output_units = low[n].output_units.int
                /\ IsQuotient(found[n].yield, low[n].output_units.int,
                              low[n].input_units.int)

\* a stage at 9/10 and a stage at 85/100 with threshold 9/10: only the second
C18_Witness ==
    /\ CalledLowYield
    /\ call.yield_threshold = [num |-> 9, den |-> 10]
    /\ Len(call.production_data_per_stage) = 2
    /\ call.production_data_per_stage[1].stage_name = <<"D">>
    /\ call.production_data_per_stage[2].stage_name = <<"A">>
    /\ Len(result.low_yield_stages) = 1
    /\ result.low_yield_stages[1].stage_name = <<"A">>

\* C19: when the call rejects a stage record (a field is missing, a unit
\* count is no integer, input_units <= 0, output_units < 0 or output_units >
\* input_units) the error it returns names the rejected stage.
C19_ErrorNamesStage ==
    LET stages == call.production_data_per_stage
        bad == {i \in DOMAIN stages : ~ValidStage(stages[i])}
    IN  (CalledLowYield /\ ValidThreshold(call.yield_threshold) /\ bad # {}) =>
        LET first == CHOOSE i \in bad : \A j \in bad : i <= j
        IN  /\ IsError(result)
            /\ "stage" \in DOMAIN result
            /\ result.stage = stages[first].stage_name

CalledOoc == call.op = "identify_out_of_control_points"

\* the value of a tagged number, as a rational
Num(v) == IF "int" \in DOMAIN v THEN [num |-> v.int, den |-> 1] ELSE v.float

\* a > b for rationals
Greater(a, b) == a.num * b.den > b.num * a.den

\* C20: on a non-empty series of numbers with numeric limits the call fails
\* when lower_control_limit > upper_control_limit and accepts equal limits;
\* otherwise it returns one {index, value} for each position whose value is
\* greater than the upper or less than the lower limit (a value equal to a
\* limit is not flagged), with 0-based indices in increasing order, and
\* nothing else.
C20_OutOfControl ==
    CalledOoc =>
        LET data == call.data_points
            upper == Num(call.upper_control_limit)
            lower == Num(call.lower_control_limit)
            flagged == {i \in DOMAIN data :
                            Greater(Num(data[i]), upper) \/ Greater(lower, Num(data[i]))}
        IN  IF Greater(lower, upper)
            THEN result = Error("Lower control limit cannot be greater than Upper control limit.")
            ELSE LET points == result.out_of_control_points
                 IN  /\ Len(points) = Cardinality(flagged)
                     /\ \A n \in DOMAIN points :
                            /\ DOMAIN points[n] = {"index", "value"}
                            /\ points[n].index + 1 \in flagged
                            /\ points[n].value = Num(data[points[n].index + 1])
                     /\ \A n, m \in DOMAIN points :
                            n < m => points[n].index < points[m].index

\* the series [5, 50, 5] with limits 20 and 0: index 1, value 50
C20_Witness ==
    /\ CalledOoc
    /\ call.data_points = <<[int |-> 5], [int |-> 50], [int |-> 5]>>
    /\ call.upper_control_limit = [int |-> 20]
    /\ call.lower_control_limit = [int |-> 0]
    /\ result.out_of_control_points = <<[index |-> 1, value |-> [num |-> 50, den |-> 1]]>>

CalledSpc == call.op = "calculate_spc_metrics_and_limits"

\* a - b and a * b for rationals with positive denominators
Diff(a, b) == [num |-> a.num * b.den - b.num * a.den, den |-> a.den * b.den]

Times(a, b) == [num |-> a.num * b.num, den |-> a.den * b.den]

Same(a, b) == a.num * b.den = b.num * a.den

\* base + coef * sqrt(rad) >= q, by comparing squares
AtLeast(x, q) ==
    LET a == Diff(x.base, q)
        a2 == Times(a, a)
        c2r == Times(Times(x.coef, x.coef), x.rad)
    IN  IF x.coef.num >= 0
        THEN a.num >= 0 \/ ~Greater(a2, c2r)
        ELSE a.num >= 0 /\ ~Greater(c2r, a2)

\* base + coef * sqrt(rad) <= q
AtMost(x, q) ==
    AtLeast([base |-> Diff([num |-> 0, den |-> 1], x.base),
             coef |-> Diff([num |-> 0, den |-> 1], x.coef),
             rad |-> x.rad],
            Diff([num |-> 0, den |-> 1], q))

\* the value is the rational q
IsRational(x, q) == x.coef.num = 0 /\ Same(x.base, q)

\* lower and upper are at the same distance from mean
Symmetric(lower, upper, mean) ==
    /\ Same(Diff(upper.base, mean), Diff(mean, lower.base))
    /\ lower.coef.num + upper.coef.num = 0
    /\ lower.coef.den = upper.coef.den
    /\ upper.coef.num # 0 => lower.rad = upper.rad

CalledDetect == call.op = "detect_simple_anomalies"

\* the call is about a constant series that is long enough for the window
ConstantSeries ==
    /\ CalledDetect
    /\ IsList(call.data_points)
    /\ \A i \in DOMAIN call.data_points : IsNumber(call.data_points[i])
    /\ \A i, j \in DOMAIN call.data_points :
            Same(Num(call.data_points[i]), Num(call.data_points[j]))
    /\ Len(call.data_points) >= call.window_size

\* the value breaches an absolute threshold of the call
AboveUpper(v) ==
    /\ call.absolute_upper_threshold # [none |-> TRUE]
    /\ Greater(Num(v), Num(call.absolute_upper_threshold))

BelowLower(v) ==
    /\ call.absolute_lower_threshold # [none |-> TRUE]
    /\ Greater(Num(call.absolute_lower_threshold), Num(v))

\* C22 as stated: for a constant series with at least window_size points no
\* anomalies are reported, whatever the window, the width of the rolling
\* band and the absolute thresholds are.
C22_ConstantSeries_AsStated ==
    ConstantSeries => (IsError(result) \/ result.anomalies = <<>>)

\* C22: for a constant series with at least window_size points and valid
\* parameters the rolling rule reports nothing, whatever the window and the
\* width of the band are: the anomalies are all the positions, each with the
\* one absolute reason, when the value breaches a supplied absolute
\* threshold, and none otherwise.
C22_ConstantSeries ==
    (ConstantSeries /\ ~IsError(result)) =>
        LET data == call.data_points
            anomalies == result.anomalies
        IN  IF AboveUpper(data[1]) \/ BelowLower(data[1])
            THEN /\ Len(anomalies) = Len(data)
                 /\ \A n \in DOMAIN anomalies :
                        /\ anomalies[n].index = n - 1
                        /\ anomalies[n].reason =
                                IF AboveUpper(data[1])
                                THEN <<"Exceeded absolute upper threshold">>
                                ELSE <<"Below absolute lower threshold">>
            ELSE anomalies = <<>>

\* the series [50, 50, 50] with window 3 and an absolute upper threshold
\* of 20: all three positions are reported
C22_Witness ==
    /\ ConstantSeries
    /\ call.data_points = <<[int |-> 50], [int |-> 50], [int |-> 50]>>
    /\ call.window_size = 3
    /\ call.absolute_upper_threshold = [int |-> 20]
    /\ ~IsError(result)
    /\ Len(result.anomalies) = 3

\* the positions before and after a position that its centered window
\* covers
Before(window_size) == window_size \div 2

After(window_size) == (window_size - 1) \div 2

\* the full centered window of position i (from 1) lies in a series of n
FullWindow(n, i, window_size) ==
    i - Before(window_size) >= 1 /\ i + After(window_size) <= n

RECURSIVE SumOf(_)
SumOf(qs) == IF qs = <<>> THEN [num |-> 0, den |-> 1]
             ELSE RAdd(Head(qs), SumOf(Tail(qs)))

\* the distance of the value at i from the mean of its window, squared,
\* and the squared reach of the rolling band: the square of the width times
\* the sample variance of the window
RollingMean(data, i, window_size) ==
    LET w == [j \in 1..window_size |-> Num(data[i - Before(window_size) + j - 1])]
    IN  RDiv(SumOf(w), [num |-> window_size, den |-> 1])

RollingReach2(data, i, window_size, width) ==
    LET m == RollingMean(data, i, window_size)
        sq == [j \in 1..window_size |->
                LET d == RSub(Num(data[i - Before(window_size) + j - 1]), m)
                IN  RMul(d, d)]
    IN  RMul(RMul(width, width), RDiv(SumOf(sq), [num |-> window_size - 1, den |-> 1]))

\* the value at i is above (below) the rolling band of its full window
AboveBand(data, i, window_size, width) ==
    /\ FullWindow(Len(data), i, window_size)
    /\ LET d == RSub(Num(data[i]), RollingMean(data, i, window_size))
       IN  d.num > 0 /\ Greater(RMul(d, d), RollingReach2(data, i, window_size, width))

BelowBand(data, i, window_size, width) ==
    /\ FullWindow(Len(data), i, window_size)
    /\ LET d == RSub(Num(data[i]), RollingMean(data, i, window_size))
       IN  d.num < 0 /\ Greater(RMul(d, d), RollingReach2(data, i, window_size, width))

\* the reasons of an anomaly, as the set of the parts joined by "; "
ReasonParts(reason) == {reason[k] : k \in DOMAIN reason} \ {"; "}

\* C24: a position without a full centered window is reported exactly when
\* it breaches a supplied absolute threshold, and never for a rolling
\* reason; a position with a full window is reported exactly when it
\* breaches an absolute threshold or lies outside the rolling band, with
\* every reason that applies; each reported index (from 0) occurs once and
\* the indices increase.
C24_EdgesAndReasons ==
    (CalledDetect /\ ~IsError(result)) =>
        LET data == call.data_points
            w == call.window_size
            k == call.std_dev_threshold
            anomalies == result.anomalies
            Reasons(i) ==
                (IF AboveUpper(data[i]) THEN {"Exceeded absolute upper threshold"} ELSE {})
                \cup (IF BelowLower(data[i]) THEN {"Below absolute lower threshold"} ELSE {})
                \cup (IF AboveBand(data, i, w, k) THEN {"Exceeded rolling upper bound"} ELSE {})
                \cup (IF BelowBand(data, i, w, k) THEN {"Below rolling lower bound"} ELSE {})
            reported == {anomalies[n].index + 1 : n \in DOMAIN anomalies}
        IN  /\ \A n, m \in DOMAIN anomalies : n < m => anomalies[n].index < anomalies[m].index
            /\ reported = {i \in DOMAIN data : Reasons(i) # {}}
            /\ \A n \in DOMAIN anomalies :
                    LET i == anomalies[n].index + 1
                    IN  /\ ReasonParts(anomalies[n].reason) = Reasons(i)
                        /\ Len(anomalies[n].reason) = 2 * Cardinality(Reasons(i)) - 1
                        /\ anomalies[n].value = Num(data[i])
                        /\ ~FullWindow(Len(data), i, w) =>
                                (AboveUpper(data[i]) \/ BelowLower(data[i]))
            /\ \A i \in DOMAIN data :
                    ~FullWindow(Len(data), i, w) =>
                        (i \in reported <=> (AboveUpper(data[i]) \/ BelowLower(data[i])))

\* the series [5, 50, 5] with window 3, width 1 and absolute thresholds 20
\* and 10: the edges are below the lower threshold, the middle point is
\* above the upper threshold and above the rolling band
C24_Witness ==
    /\ CalledDetect
    /\ call.data_points = <<[int |-> 5], [int |-> 50], [int |-> 5]>>
    /\ call.window_size = 3
    /\ ~IsError(result)
    /\ Len(result.anomalies) = 3
    /\ result.anomalies[1].reason = <<"Below absolute lower threshold">>
    /\ result.anomalies[2].reason =
            <<"Exceeded absolute upper threshold", "; ", "Exceeded rolling upper bound">>
    /\ result.anomalies[3].index = 2

CalledQuery == call.op = "query_knowledge_base"

\* the words, each after a space
RECURSIVE Spaced(_)
Spaced(words) == IF words = <<>> THEN <<>> ELSE <<" ">> \o Head(words) \o Spaced(Tail(words))

\* the text of an entry: its keywords, separated by spaces, a space and its
\* problem summary
EntryText(e) ==
    LET words == IF "keywords" \in DOMAIN e THEN e.keywords ELSE <<>>
        summary == IF "problem_summary" \in DOMAIN e THEN e.problem_summary ELSE <<>>
    IN  (IF words = <<>> THEN <<>> ELSE Tail(Spaced(words))) \o <<" ">> \o summary

\* needle occurs in hay, letters compared without regard to case
ContainsIgnoreCase(hay, needle) ==
    \E i \in 0..(Len(hay) - Len(needle)) :
        \A j \in DOMAIN needle : SameLetter(hay[i + j], needle[j])

\* C23: the entries a query returns are determined by the keywords and the
\* catalog alone, whatever the session store holds and whatever was called
\* before (so a repeated query returns the same list): they are the entries
\* of the catalog, in catalog order, whose text contains at least one of the
\* keywords without regard to case.
C23_QueryMatches ==
    (CalledQuery /\ ~IsError(result)) =>
        LET Hit(e) == \E k \in DOMAIN call.search_keywords :
                        ContainsIgnoreCase(EntryText(e), call.search_keywords[k].str)
        IN  result.results = SelectSeq(call.knowledge_base.entries, Hit)

\* the query FLUX, not logged, on the catalog of entries 2, 3 and 1 returns
\* entries 3 and 1, in a session that has logged the same query and a
\* calculation before
C23_Witness ==
    /\ CalledQuery
    /\ ~IsError(result)
    /\ ~call.tool_context
    /\ call.search_keywords = <<[str |-> <<"F", "L", "U", "X">>]>>
    /\ Len(call.knowledge_base.entries) = 3
    /\ Len(result.results) = 2
    /\ result.results[1] = call.knowledge_base.entries[2]
    /\ result.results[2] = call.knowledge_base.entries[3]
    /\ "calculations" \in DOMAIN state
    /\ "kb_queries" \in DOMAIN state
    /\ state["kb_queries"][1].keywords_used = call.search_keywords
    /\ state["kb_queries"][1].matches_found = 2

\* the occurrence counts the call returned
Counts == result.identified_patterns.failure_type_counts

RECURSIVE SumCounts(_)
SumCounts(ks) ==
    IF ks = {} THEN 0
    ELSE LET k == CHOOSE y \in ks : TRUE IN Counts[k] + SumCounts(ks \ {k})

\* C25: for every event type other than the maintenance type, the count
\* reported for (item_id, event_type) is the number of input events with
\* that item_id and that event_type, whether or not the event gave a sample;
\* maintenance events are not counted, so the counts add up to the number of
\* events that are no maintenance events.
C25_FailureCounts ==
    (CalledMiner /\ ~IsError(result)) =>
        LET data == call.event_data
            failures == {j \in DOMAIN data : ~IsMaintenance(data[j])}
        IN  /\ \A j \in failures :
                    /\ KeyOf(data[j]) \in DOMAIN Counts
                    /\ Counts[KeyOf(data[j])]
                            = Cardinality({i \in DOMAIN data :
                                            /\ data[i].item_id = data[j].item_id
                                            /\ data[i].event_type = data[j].event_type})
            /\ \A k \in DOMAIN Counts : \E j \in failures : KeyOf(data[j]) = k
            /\ SumCounts(DOMAIN Counts) = Cardinality(failures)

\* no two events of the list have the same item_id and the same timestamp
DistinctSortKeys(data) ==
    \A i, j \in DOMAIN data :
        (data[i].item_id = data[j].item_id /\ data[i].timestamp = data[j].timestamp) => i = j

Reorderings(n) == {p \in [1..n -> 1..n] : \A i, j \in 1..n : p[i] = p[j] => i = j}

\* C28: when no two events of the input have the same item_id and
\* timestamp, every reordering of the input gives the result of the call:
\* the same counts and the same summary with the same all_hours lists; and
\* no recorded time to failure is negative.
C28_OrderIndependent ==
    (CalledMiner /\ ~IsError(result) /\ DistinctSortKeys(call.event_data)) =>
        LET data == call.event_data
        IN  /\ \A p \in Reorderings(Len(data)) :
                    identify_simple_failure_patterns(
                        [i \in DOMAIN data |-> data[p[i]]],
                        call.maintenance_completed_event_type, FALSE, EmptyState).ret
                      = result
            /\ \A k \in DOMAIN Summary :
                    \A n \in DOMAIN Summary[k].all_hours :
                        ~Greater([num |-> 0, den |-> 1], Summary[k].all_hours[n])

\* a jam of L at 10 minutes listed before the maintenance of L at 0 minutes
\* and a jam of L::P: one sample of 0.17 hours
C28_Witness ==
    /\ CalledMiner
    /\ ~IsError(result)
    /\ DistinctSortKeys(call.event_data)
    /\ Len(call.event_data) = 3
    /\ call.event_data[1].timestamp = [int |-> 10]
    /\ call.event_data[1].event_type = <<"J">>
    /\ call.event_data[2].timestamp = [int |-> 0]
    /\ IsMaintenance(call.event_data[2])
    /\ call.event_data[2].item_id = call.event_data[1].item_id
    /\ call.event_data[3].item_id # call.event_data[1].item_id
    /\ \E k \in DOMAIN Summary : Summary[k].all_hours = <<[num |-> 17, den |-> 100]>>

\* the topic each logging operation writes to
TopicOf ==
    [calculate_yield_metrics |-> "calculations",
     identify_low_yield_stages |-> "low_yield_analysis",
     calculate_spc_metrics_and_limits |-> "spc_analysis",
     identify_out_of_control_points |-> "spc_ooc_checks",
     detect_simple_anomalies |-> "anomaly_detection_runs",
     identify_simple_failure_patterns |-> "failure_pattern_runs",
     query_knowledge_base |-> "kb_queries",
     suggest_improvement_actions |-> "improvement_suggestions",
     add_action_item |-> "action_items"]

\* the step is a call of a logging operation that neither returned an error
\* nor raised
LoggingCallSucceeds ==
    /\ call = [op |-> "none"]
    /\ call'.op \in DOMAIN TopicOf
    /\ ~IsError(result')
    /\ ~IsRaised(result')

\* the step appends one record to topic t and changes nothing else
AppendsOneTo(t) ==
    /\ DOMAIN state' = DOMAIN state \cup {t}
    /\ Len(state'[t]) = (IF t \in DOMAIN state THEN Len(state[t]) ELSE 0) + 1
    /\ t \in DOMAIN state => \A i \in DOMAIN state[t] : state'[t][i] = state[t][i]
    /\ \A u \in DOMAIN state \ {t} : state'[u] = state[u]

\* a call of list_action_items
ListCall == call = [op |-> "none"] /\ call'.op = "list_action_items"

\* C26: a successful call of a logging operation on the session store (with
\* a tool context) appends exactly one record to the topic of the operation,
\* creating the topic on first use, and leaves every other topic as it was
\* (a call that is given no store changes none); list_action_items changes
\* nothing in the store and does not create "action_items".
C26_OneRecordPerCall ==
    [][/\ LoggingCallSucceeds =>
            IF call'.tool_context THEN AppendsOneTo(TopicOf[call'.op])
            ELSE state' = state
       /\ ListCall => state' = state]_vars

\* a logged control limit calculation, the first of the session, after a
\* logged yield calculation
C26_Witness ==
    /\ CalledSpc
    /\ call.tool_context
    /\ ~IsError(result)
    /\ "spc_analysis" \in DOMAIN state
    /\ Len(state["spc_analysis"]) = 1
    /\ state["spc_analysis"][1] = result
    /\ "calculations" \in DOMAIN state

\* the call returned a question (the conclusion)
AsksWhy == "next_prompt_for_user" \in DOMAIN result /\ "conclusion_prompt" \notin DOMAIN result

Concludes == "conclusion_prompt" \in DOMAIN result /\ "next_prompt_for_user" \notin DOMAIN result

\* the trace of a logged replay that has come to a history of d whys: one
\* record for each of the depths 0 to d, in this order
LoggedInOrder(d) ==
    /\ "rca_sessions" \in DOMAIN state
    /\ Len(state["rca_sessions"]) = d + 1
    /\ \A i \in 1..(d + 1) :
            /\ state["rca_sessions"][i].depth = i - 1
            /\ state["rca_sessions"][i].problem = call.problem_statement

\* C27: in a replay with a problem statement and answers that are not empty
\* (nor of white space only), the call with a history of
\* d < 5 whys returns a question and reports depth d + 1, so that the calls
\* 1 to 5 report the depths 1 to 5 in this order; every call with a history
\* of 5 or more whys returns the conclusion; no call returns an error.
C27_Replay ==
    (CalledGuide /\ ~IsBlank(call.problem_statement)
        /\ \A i \in DOMAIN call.previous_whys : ~IsBlank(call.previous_whys[i].user_answer))
        => LET d == Len(call.previous_whys)
           IN  /\ ~IsError(result)
               /\ IF d < 5 THEN AsksWhy /\ result.current_depth = d + 1
                  ELSE Concludes /\ result.current_depth = d
               /\ call.tool_context => LoggedInOrder(d)

\* the sixth call of a logged replay: five answered questions, the first
\* about the problem and the others about the answer before, and the
\* conclusion
C27_Witness ==
    /\ CalledGuide
    /\ call.tool_context
    /\ Len(call.previous_whys) = 5
    /\ \A i \in 1..5 : ~IsBlank(call.previous_whys[i].user_answer)
    /\ call.previous_whys[1].why_question = <<"Why is '", "P", "' happening?">>
    /\ call.previous_whys[5].why_question
            = <<"Why did '">> \o call.previous_whys[4].user_answer \o <<"' occur?">>
    /\ Concludes
    /\ LoggedInOrder(5)

====
